---------------------------- MODULE Spec2Model ----------------------------
(***************************************************************************)
(* A model of ReprapGcodeProtocol                                          *)
(* (src/src/octoprint/comm/protocol/reprap/__init__.py): the protocol      *)
(* state machine, the send queue and the sending thread, the               *)
(* clear-to-send credit, line numbering with checksums, and the resend and *)
(* timeout handling of the receiving side.                                 *)
(*                                                                         *)
(* Granularity.  Every handler of the receiving thread and every call of   *)
(* the public API is one atomic step.  The sending thread takes three      *)
(* steps per queue entry: the wait for a credit, the dequeue with the      *)
(* sending phase, the write and the sent phase, and the final              *)
(* clear()/_continue_sending().  Where the steps of the receiving thread   *)
(* between the dequeue and the sending phase matter, the dequeue is a step *)
(* of its own (SL_Dequeue, SL_Send).                                       *)
(*                                                                         *)
(* An optional integer (None or n) is the sequence << >> or <<n>>.         *)
(***************************************************************************)
EXTENDS Integers, Sequences, FiniteSets, TLC

\* ------------------------------------------------------------------ bounds

\* first-time checksummed sends stop once the line counter reaches this
MaxLine == 3
\* the environment enqueues nothing more once the send queue is this long
MaxQueue == 2
\* lines the wire keeps (the most recent ones)
MaxWire == 1
\* unsolicited events of a run: the user's and the poller's commands, and the
\* timeouts, resend requests, errors and waits received
MaxEvents == 1
\* lines in flight beyond which the send loop is not followed
MaxInflight == 2
\* the same two bounds for the runs of a firmware that stops answering
MaxSilentEvents == 11
MaxSilentInflight == 12
\* the unsolicited events of the runs that climb the timeout ladder
MaxLadderEvents == 7
\* the unsolicited events of the runs with one resend request at a time
MaxResendEvents == 2
\* the unsolicited events of the runs in which only commands are sent
MaxDedupEvents == 2
\* the unsolicited events of the runs in which the user resets the numbering
MaxResetEvents == 2
\* the unsolicited events of the runs in which the two threads interleave
\* within an iteration of the send loop
MaxRaceEvents == 1
\* the unsolicited events of the runs in which a pause command is submitted
MaxPauseEvents == 1
\* the unsolicited events of the runs in which the user sends M112
MaxEmergencyEvents == 2
\* the unsolicited events of the runs that end with a disconnect
MaxTeardownEvents == 1
\* the unsolicited events of the runs with a second connect()
MaxReconnectEvents == 1
\* the unsolicited events of the runs in which oks are to be ignored
MaxIgnoreEvents == 2
\* the firmware-info messages of the runs in which the firmware reports
\* its name
MaxFirmwareEvents == 2
\* the unsolicited events of the runs with a job of each class
MaxStreamEvents == 2
\* the unsolicited events of the runs with at-commands
MaxAtEvents == 2
\* the plugin hooks registered in a run, and the unsolicited events of the
\* runs with hooks
MaxHooks == 2
MaxHookEvents == 1
\* the unsolicited events of the runs with capability reports
MaxCapabilityEvents == 2
\* the unsolicited events of the runs with tool changes and of the runs
\* with temperature targets
MaxToolEvents == 2
MaxTargetEvents == 2
\* the unsolicited events of the runs with resend requests for any line
MaxStuckEvents == 3
\* the unsolicited events of the runs that count timeouts
MaxCounterEvents == 8
\* the unsolicited events of the runs with calls for several commands
MaxSeveralEvents == 2
\* the jobs started in a run
MaxJobs == 1

\* ------------------------------------------------------- program constants

\* CountedEvent(max=10)
CreditMax == 10
\* LineHistory(maxlen = 50)
HistoryMaxLen == 50
\* consecutive_max of _on_comm_timeout
ConsecutiveMaxLongRunning == 5
ConsecutiveMaxProcessing == 10
ConsecutiveMaxOther == 15

\* ------------------------------------------------------------ bytes, text

None == << >>
Some(n) == <<n>>
IsNone(o) == o = << >>
Val(o) == o[1]

\* The lines the model sends, and the bytes of each (ASCII).
Lines ==
    {"G28", "G1 X10", "M105", "M110 N0", "M109 S200", "@pause", "",
     "M110 N2", "M110", "M0", "M112", "M155 S2", "M27 S1",
     "T1", "M109 T1 S200", "M109 T2 S200", "M104 S210", "M104 S0",
     "M140 S60", "M140 S0"}

Bytes(line) ==
    CASE line = "G28"       -> <<71, 50, 56>>
      [] line = "G1 X10"    -> <<71, 49, 32, 88, 49, 48>>
      [] line = "M105"      -> <<77, 49, 48, 53>>
      [] line = "M110 N0"   -> <<77, 49, 49, 48, 32, 78, 48>>
      [] line = "M109 S200" -> <<77, 49, 48, 57, 32, 83, 50, 48, 48>>
      [] line = "@pause"    -> <<64, 112, 97, 117, 115, 101>>
      [] line = ""          -> << >>
      [] line = "M110 N2"   -> <<77, 49, 49, 48, 32, 78, 50>>
      [] line = "M110"      -> <<77, 49, 49, 48>>
      [] line = "M0"        -> <<77, 48>>
      [] line = "M112"      -> <<77, 49, 49, 50>>
      [] line = "M155 S2"   -> <<77, 49, 53, 53, 32, 83, 50>>
      [] line = "M27 S1"    -> <<77, 50, 55, 32, 83, 49>>
      [] line = "T1"        -> <<84, 49>>
      [] line = "M109 T1 S200" -> <<77, 49, 48, 57, 32, 84, 49, 32, 83, 50, 48, 48>>
      [] line = "M109 T2 S200" -> <<77, 49, 48, 57, 32, 84, 50, 32, 83, 50, 48, 48>>
      [] line = "M104 S210" -> <<77, 49, 48, 52, 32, 83, 50, 49, 48>>
      [] line = "M104 S0"   -> <<77, 49, 48, 52, 32, 83, 48>>
      [] line = "M140 S60"  -> <<77, 49, 52, 48, 32, 83, 54, 48>>
      [] line = "M140 S0"   -> <<77, 49, 52, 48, 32, 83, 48>>

\* str(n) of a natural number, as bytes
RECURSIVE Str(_)
Str(n) == IF n < 10 THEN <<48 + n>> ELSE Str(n \div 10) \o <<48 + (n % 10)>>

\* a ^ b on naturals
RECURSIVE Xor(_, _)
Xor(a, b) ==
    IF a = 0 THEN b
    ELSE IF b = 0 THEN a
    ELSE ((a + b) % 2) + 2 * Xor(a \div 2, b \div 2)

\* checksum = 0; for c in bytearray(command_to_send): checksum ^= c
RECURSIVE ChecksumOf(_)
ChecksumOf(bs) ==
    IF bs = << >> THEN 0 ELSE Xor(ChecksumOf(SubSeq(bs, 1, Len(bs) - 1)), bs[Len(bs)])

\* the first index of byte b in data, or 0
IndexOf(data, b) ==
    IF \E i \in 1..Len(data) : data[i] = b
    THEN CHOOSE i \in 1..Len(data) : data[i] = b /\ \A j \in 1..(i - 1) : data[j] # b
    ELSE 0

\* the value of a sequence of ASCII digits
RECURSIVE DecimalValue(_)
DecimalValue(digits) ==
    IF digits = << >> THEN 0
    ELSE 10 * DecimalValue(SubSeq(digits, 1, Len(digits) - 1))
         + (digits[Len(digits)] - 48)

AllDigits(digits) ==
    digits # << >> /\ \A i \in 1..Len(digits) : digits[i] \in 48..57

\* ---------------------------------------------------------- command model

\* to_command(line, type): a G-code when the line starts with G, M or T and a
\* digit, an at-command when it starts with '@', a generic command otherwise.
IsDigit(b) == b >= 48 /\ b <= 57

KindOf(line) ==
    LET bs == Bytes(line) IN
    IF Len(bs) >= 1 /\ bs[1] = 64 THEN "at"
    ELSE IF Len(bs) >= 2 /\ bs[1] \in {71, 77, 84} /\ IsDigit(bs[2]) THEN "gcode"
    ELSE "generic"

\* GcodeCommand.code
CodeOf(line) ==
    CASE line = "G28"       -> "G28"
      [] line = "G1 X10"    -> "G1"
      [] line = "M105"      -> "M105"
      [] line = "M110 N0"   -> "M110"
      [] line = "M109 S200" -> "M109"
      [] line = "M110 N2"   -> "M110"
      [] line = "M110"      -> "M110"
      [] line = "M0"        -> "M0"
      [] line = "M112"      -> "M112"
      [] line = "M155 S2"   -> "M155"
      [] line = "M27 S1"    -> "M27"
      [] line = "T1"        -> "T"
      [] line = "M109 T1 S200" -> "M109"
      [] line = "M109 T2 S200" -> "M109"
      [] line = "M104 S210" -> "M104"
      [] line = "M104 S0"   -> "M104"
      [] line = "M140 S60"  -> "M140"
      [] line = "M140 S0"   -> "M140"
      [] OTHER              -> ""

\* a value computed once and handed to what goes on with it
With(x, F(_)) == F(x)

\* GcodeCommand.n: the digits after the line's "N" (None when the line
\* carries no N parameter)
ParamN(line) ==
    LET bs == Bytes(line)
        i == IndexOf(bs, 78)
    IN IF i = 0 \/ ~AllDigits(SubSeq(bs, i + 1, Len(bs))) THEN None
       ELSE Some(DecimalValue(SubSeq(bs, i + 1, Len(bs))))

\* a parameter of a GcodeCommand (t, s, r, tool): the digits after the
\* letter up to the next blank (None when the line has no such parameter)
Param(line, letter) ==
    With(Bytes(line), LAMBDA bs :
      With(IndexOf(bs, letter), LAMBDA i :
        IF i = 0 THEN None
        ELSE With(SubSeq(bs, i + 1, Len(bs)), LAMBDA rest :
               With(IndexOf(rest, 32), LAMBDA j :
                 With(IF j = 0 THEN rest ELSE SubSeq(rest, 1, j - 1),
                      LAMBDA digits :
                        IF ~AllDigits(digits) THEN None
                        ELSE Some(DecimalValue(digits)))))))

\* the truth value Python gives a number or None
Truthy(o) == ~IsNone(o) /\ Val(o) # 0

to_command(line, type) ==
    [line |-> line, kind |-> KindOf(line), code |-> CodeOf(line), type |-> type]

\* Command(line): the plain base class, whatever the line holds
Command(line) == [line |-> line, kind |-> "generic", code |-> "", type |-> "None"]

IsGcode(command) == command.kind = "gcode"
IsAtCommand(command) == command.kind = "at"

\* ------------------------------------------------------------ the flavors

\* The flavor and the transport the engine is constructed and connected with.
\* An attribute name of a flavor is kept as its prefix and the rest; attrs
\* lists the matchers in the order dir() gives them. identifier is the set
\* of firmware names the flavor claims (empty: the flavor has no identifier).
GenericFlavor ==
    [key |-> "generic", identifier |-> {},
     attrs |-> <<<<"comm_", "ok">>, <<"comm_", "resend">>, <<"comm_", "start">>,
                 <<"error_", "communication">>,
                 <<"message_", "firmware_info">>>>,
     hello |-> "M110 N0", checksum_requiring_commands |-> {"M110"},
     long_running_commands |-> {"G28"}, always_send_checksum |-> FALSE,
     never_send_checksum |-> FALSE, unknown_with_checksum |-> FALSE,
     unknown_requires_ack |-> FALSE, message_integrity |-> FALSE]

AckingFlavor ==
    [key |-> "acking", identifier |-> {"acking", "acking-terse"},
     attrs |-> <<<<"comm_", "ignore_ok">>, <<"comm_", "ok">>,
                 <<"comm_", "resend">>, <<"comm_", "start">>,
                 <<"error_", "communication">>, <<"error_", "sdcard">>,
                 <<"message_", "firmware_info">>>>,
     hello |-> "None", checksum_requiring_commands |-> {},
     long_running_commands |-> {}, always_send_checksum |-> TRUE,
     never_send_checksum |-> FALSE, unknown_with_checksum |-> TRUE,
     unknown_requires_ack |-> TRUE, message_integrity |-> FALSE]

\* a flavor the engine is never constructed with: only a firmware-info
\* message installs it
TerseFlavor ==
    [key |-> "terse", identifier |-> {"acking-terse"},
     attrs |-> <<<<"comm_", "ok">>, <<"comm_", "start">>,
                 <<"message_", "firmware_info">>,
                 <<"message_", "temperature">>>>,
     hello |-> "None", checksum_requiring_commands |-> {},
     long_running_commands |-> {}, always_send_checksum |-> FALSE,
     never_send_checksum |-> TRUE, unknown_with_checksum |-> FALSE,
     unknown_requires_ack |-> FALSE, message_integrity |-> FALSE]

Flavors == {GenericFlavor, AckingFlavor}

\* all_flavors(), in the order of the enumeration
all_flavors == <<GenericFlavor, AckingFlavor, TerseFlavor>>

\* get_flavor_attributes_starting_with
get_flavor_attributes_starting_with(flavor, prefix) ==
    SelectSeq(flavor.attrs, LAMBDA x : x[1] = prefix)

\* the two lists __init__ and _switch_flavor derive from a flavor
RegisteredMessagesOf(flavor) ==
    get_flavor_attributes_starting_with(flavor, "comm_")
    \o get_flavor_attributes_starting_with(flavor, "message_")
ErrorMessagesOf(flavor) == get_flavor_attributes_starting_with(flavor, "error_")

\* flavor.command_set_line(0)
command_set_line0 == "M110 N0"

\* ------------------------------------------------------- CountedEvent(10)

\* set(): increment, saturated at the maximum
CountedEventSet(c) == IF c < CreditMax THEN c + 1 ELSE CreditMax
\* clear(): decrement, minimum 0
CountedEventClear(c) == IF c > 0 THEN c - 1 ELSE 0
\* blocked(): true iff the count is 0
CountedEventBlocked(c) == c = 0
\* wait(), once the count is positive: the waiter takes one
CountedEventWait(c) == c - 1

\* ----------------------------------------------------------- LineHistory

\* append(line, line_number): the smallest key is evicted when full
RECURSIVE MinOf(_)
MinOf(S) == LET x == CHOOSE x \in S : TRUE
            IN IF S = {x} THEN x
               ELSE LET m == MinOf(S \ {x}) IN IF x < m THEN x ELSE m

LineHistoryAppend(h, line, n) ==
    LET kept == IF Cardinality(DOMAIN h) >= HistoryMaxLen /\ n \notin DOMAIN h
                THEN DOMAIN h \ {MinOf(DOMAIN h)} ELSE DOMAIN h
    IN [k \in kept \cup {n} |-> IF k = n THEN line ELSE h[k]]

LineHistoryEmpty == [k \in {} |-> ""]

\* ------------------------------------------------- TypedQueue, SendQueue

\* a put is refused when an entry of the same non-null type waits in the queue
TypeInQueue(q, type) == type # "None" /\ \E i \in 1..Len(q) : q[i].command.type = type

\* SendQueue.get(): a resend entry if there is one; an ordinary entry only
\* while no resend is active
SendQueueCanGet(s) ==
    s.resend_q # << >> \/ (s.send_q # << >> /\ ~s.resend_active)

\* ------------------------------------------------------- protocol states

\* _is_operational
IsOperational(s) == s.state \notin {"DISCONNECTED", "DISCONNECTED_WITH_ERROR"}
\* _is_busy
IsBusy(s) == s.state \in {"PROCESSING", "PAUSED"}
\* _is_streaming
IsStreaming(s) == IsBusy(s) /\ s.job.kind = "stream"
\* _active (the transport is active while the engine is connected)
Active(s) == s.send_queue_active
\* can_send
CanSend(s) == ~s.long_running_command /\ ~s.heating

\* Protocol.pause_processing: a job being processed is paused
pause_processing(s) ==
    IF s.state = "PROCESSING" THEN [s EXCEPT !.state = "PAUSED"] ELSE s

\* Protocol.cancel_processing(error): a busy engine starts cancelling its job
cancel_processing(s, error) ==
    IF IsBusy(s)
    THEN [s EXCEPT !.state = "CANCELLING", !.job.active = FALSE, !.cancel_error = error]
    ELSE s

\* ---------------------------------------------------------------- sending

\* _enqueue_for_sending: false when the type already waits in the target queue
EnqueueForSending(s, command, linenumber, processed, resend) ==
    LET entry == [command |-> command, linenumber |-> linenumber, processed |-> processed]
    IN IF resend
       THEN IF TypeInQueue(s.resend_q, command.type)
            THEN [s EXCEPT !.ret = "False"]
            ELSE [s EXCEPT !.resend_q = Append(@, entry), !.ret = "True"]
       ELSE IF TypeInQueue(s.send_q, command.type)
            THEN [s EXCEPT !.ret = "False"]
            ELSE [s EXCEPT !.send_q = Append(@, entry), !.ret = "True"]

\* the phases _process_command_phase lets through to the handlers
HandledPhases == {"queueing", "queued", "sending", "sent"}

\* the _gcode_<code>_<phase> methods of the class
HandlersGcode ==
    {<<"T", "sent">>, <<"G0", "sent">>, <<"G1", "sent">>, <<"M0", "queuing">>,
     <<"M1", "queuing">>, <<"M25", "queuing">>, <<"M140", "queuing">>,
     <<"M190", "queuing">>, <<"M155", "sending">>, <<"M27", "sending">>,
     <<"M104", "sent">>, <<"M140", "sent">>, <<"M109", "sent">>, <<"M190", "sent">>,
     <<"M116", "sent">>, <<"M110", "sending">>, <<"M112", "queuing">>, <<"G4", "sent">>}

\* _gcode_M110_sending that starts the numbering one line late
C11_Mutant(s, command) ==
    LET n == ParamN(command.line)
        new_line_number == IF IsNone(n) THEN 0 ELSE Val(n)
    IN [s EXCEPT !.current_linenumber = new_line_number + 1,
                 !.last_n = None,
                 !.reset_k = Some(new_line_number),
                 !.since_reset = 0,
                 !.last_lines = LineHistoryEmpty,
                 !.resend_linenumber = None]

\* _gcode_M110_sending: the line counter is set, the history cleared, the
\* resend cursor dropped
GcodeM110Sending(s, command) ==
    LET n == ParamN(command.line)
        new_line_number == IF IsNone(n) THEN 0 ELSE Val(n)
    IN [s EXCEPT !.current_linenumber = new_line_number,
                 \* history variables: the numbering starts anew, at the
                 \* number this M110 asked for
                 !.last_n = None,
                 !.reset_k = Some(new_line_number),
                 !.since_reset = 0,
                 !.last_lines = LineHistoryEmpty,
                 !.resend_linenumber = None]

\* _gcode_M109_sent, _gcode_M190_sent, _gcode_M116_sent
GcodeHeatupSent(s, command) ==
    [s EXCEPT !.long_running_command = TRUE, !.heating = TRUE]

\* "tool{}".format(tool_num)
ToolName(tool_num) ==
    CASE tool_num = 0 -> "tool0"
      [] tool_num = 1 -> "tool1"
      [] tool_num = 2 -> "tool2"

\* _set_temperature: a half that is None keeps what is recorded
SetTemperature(temps, tool, actual, target) ==
    LET a == IF IsNone(actual) /\ tool \in DOMAIN temps
             THEN temps[tool].actual ELSE actual
        g == IF IsNone(target) /\ tool \in DOMAIN temps
             THEN temps[tool].target ELSE target
    IN [x \in DOMAIN temps \cup {tool} |->
          IF x = tool THEN [actual |-> a, target |-> g] ELSE temps[x]]

\* target of _gcode_M104_sent and _gcode_M140_sent
TargetOf(command, support_r) ==
    With(Param(command.line, 83), LAMBDA ps :
      IF ~IsNone(ps) THEN ps
      ELSE With(Param(command.line, 82), LAMBDA pr :
             IF ~IsNone(pr) /\ support_r THEN pr ELSE None))

\* _gcode_M104_sent
GcodeM104Sent(s, command, wait, support_r) ==
    With(Param(command.line, 84), LAMBDA t :
      With(IF Truthy(t) THEN Val(t) ELSE s.current_tool, LAMBDA tool_num :
        With(IF Truthy(t) /\ wait
             THEN [s EXCEPT !.former_tool = Some(s.current_tool),
                            !.current_tool = tool_num,
                            \* history variable: a tool is stashed
                            !.stashed = TRUE]
             ELSE s,
             LAMBDA s1 :
               With(TargetOf(command, support_r), LAMBDA target :
                 IF Truthy(target)
                 THEN [s1 EXCEPT !.temperatures =
                           SetTemperature(@, ToolName(tool_num), None, target)]
                 ELSE s1))))

\* _gcode_M140_sent
GcodeM140Sent(s, command, wait, support_r) ==
    With(TargetOf(command, support_r), LAMBDA target :
      IF Truthy(target)
      THEN [s EXCEPT !.temperatures = SetTemperature(@, "bed", None, target)]
      ELSE s)

\* _gcode_T_sent
GcodeTSent(s, command) ==
    With(Param(command.line, 84), LAMBDA t :
      IF Truthy(t) THEN [s EXCEPT !.current_tool = Val(t)] ELSE s)

\* the built-in handler of a G-code in a phase: the state after it and the
\* commands it leaves (a handler that returns nothing leaves the command)
RunGcodeHandler(s, phase, command) ==
    CASE command.code = "M110" /\ phase = "sending" ->
            [s |-> GcodeM110Sending(s, command), results |-> <<command>>]
      [] command.code = "M109" /\ phase = "sent" ->
            [s |-> GcodeM104Sent(GcodeHeatupSent(s, command), command, TRUE, TRUE),
             results |-> <<command>>]
      [] command.code = "M190" /\ phase = "sent" ->
            [s |-> GcodeM140Sent(GcodeHeatupSent(s, command), command, TRUE, TRUE),
             results |-> <<command>>]
      [] command.code = "M116" /\ phase = "sent" ->
            [s |-> GcodeHeatupSent(s, command), results |-> <<command>>]
      [] command.code = "M104" /\ phase = "sent" ->
            [s |-> GcodeM104Sent(s, command, FALSE, FALSE), results |-> <<command>>]
      [] command.code = "M140" /\ phase = "sent" ->
            [s |-> GcodeM140Sent(s, command, FALSE, FALSE), results |-> <<command>>]
      [] command.code = "T" /\ phase = "sent" ->
            [s |-> GcodeTSent(s, command), results |-> <<command>>]
      [] command.code \in {"M0", "M1", "M112"} /\ phase = "queuing" ->
            [s |-> s, results |-> << >>]
      [] OTHER -> [s |-> s, results |-> <<command>>]

\* _command_phase_sending(cmd, gcode): the only _command_phase_ method
CommandPhaseSending(s, cmd, gcode) ==
    IF gcode # "None" /\ gcode \in s.flavor.long_running_commands
    THEN [s EXCEPT !.long_running_command = TRUE]
    ELSE s

\* temperatures after __init__
NoTemperatures == [x \in {} |-> 0]

\* firmware_capabilities after __init__
NoCapabilities == [c \in {} |-> TRUE]

\* the phases a hook can be registered for, and an engine without hooks
HookPhases == {"queuing", "queued", "sending", "sent"}
NoHooks == [phase \in HookPhases |-> << >>]

\* what a plugin hook does with a command: it raises, or it returns None and
\* the command goes on as it is
HookBehaviours == {"raises", "passes"}

\* the hooks that return commands of their own: an empty list, which drops
\* the command, or a list of two
AllHookBehaviours == HookBehaviours \cup {"drops", "expands"}

\* what a hook adds to new_results when a result of several commands is
\* taken in every phase
C32_Mutant(hook, phase, command) ==
    CASE hook = "raises" -> << >>
      [] hook = "drops" -> << >>
      [] hook = "expands" -> <<command, command>>
      [] OTHER -> <<command>>

\* what one hook adds to new_results for one command: nothing when it
\* raises, the command as it is when the hook returns several outside the
\* queuing phase, the normalized result otherwise
HookResult(hook, phase, command) ==
    CASE hook = "raises" -> << >>
      [] hook = "drops" -> << >>
      [] hook = "expands" ->
            IF phase # "queuing" THEN <<command>> ELSE <<command, command>>
      [] OTHER -> <<command>>

\* one hook of _process_command_phase applied to the commands so far
RECURSIVE HookResults(_, _, _)
HookResults(hook, phase, results) ==
    IF results = << >> THEN << >>
    ELSE HookResult(hook, phase, Head(results))
         \o HookResults(hook, phase, Tail(results))

\* the loop of _process_command_phase over the hooks of the phase; it ends
\* with an empty result as soon as a hook leaves no command
RECURSIVE RunHooks(_, _, _)
RunHooks(hooks, phase, results) ==
    IF hooks = << >> THEN results
    ELSE With(HookResults(Head(hooks), phase, results),
              LAMBDA new_results :
                IF new_results = << >> THEN << >>
                ELSE RunHooks(Tail(hooks), phase, new_results))

\* the built-in handler of a command and the handler of the phase
ProcessBuiltin(s, phase, command) ==
    With(IF IsGcode(command) /\ <<command.code, phase>> \in HandlersGcode
         THEN RunGcodeHandler(s, phase, command)
         ELSE [s |-> s, results |-> <<command>>],
         LAMBDA r :
           IF r.results = << >> \/ phase # "sending"
           THEN r
           ELSE [s |-> CommandPhaseSending(r.s, command, "None"),
                 results |-> r.results])

\* the loops of _process_command_phase over the commands the hooks left
RECURSIVE ProcessBuiltins(_, _, _, _)
ProcessBuiltins(s, phase, commands, new_results) ==
    IF commands = << >> THEN [s |-> s, results |-> new_results]
    ELSE With(ProcessBuiltin(s, phase, Head(commands)),
              LAMBDA r :
                ProcessBuiltins(r.s, phase, Tail(commands),
                                new_results \o r.results))

\* _process_command_phase: a phase that is not one of HandledPhases returns
\* the command untouched; the hooks of the phase run first, a hooks' loop
\* that leaves no command ends the phase with an empty result; the phase
\* handler is called with the command alone, so its gcode argument is None
ProcessCommandPhase(s, phase, command) ==
    IF phase \notin HandledPhases
    THEN [s |-> s, results |-> <<command>>]
    ELSE With(RunHooks(s.gcode_hooks[phase], phase, <<command>>),
              LAMBDA results :
                IF results = << >>
                THEN [s |-> s, results |-> << >>]
                ELSE ProcessBuiltins(s, phase, results, << >>))

\* _process_atcommand_phase with _atcommand_pause_queuing
ProcessAtcommandPhase(s, phase, command) ==
    IF IsStreaming(s) \/ phase \notin {"queuing", "sending"}
    THEN s
    ELSE IF command.line = "@pause" /\ phase = "queuing"
         THEN pause_processing(s)
         ELSE s

\* the helper process() of _send_command
SendCommandProcess(s, command) ==
    LET s1 == IF IsAtCommand(command)
              THEN ProcessAtcommandPhase(s, "queuing", command) ELSE s
    IN With(EnqueueForSending(s1, command, None, FALSE, FALSE),
            LAMBDA s2 :
              IF s2.ret = "True"
              THEN IF ~IsStreaming(s2)
                   THEN [ProcessCommandPhase(s2, "queued", command).s
                            EXCEPT !.ret = "True"]
                   ELSE s2
              ELSE s2)

RECURSIVE SendCommandAll(_, _, _)
SendCommandAll(s, results, enqueued_something) ==
    IF results = << >>
    THEN [s EXCEPT !.ret = IF enqueued_something THEN "True" ELSE "False"]
    ELSE With(SendCommandProcess(s, Head(results)),
              LAMBDA s1 :
                SendCommandAll(s1, Tail(results),
                               enqueued_something \/ s1.ret = "True"))

\* _send_command
SendCommand(s, command) ==
    With(IF s.trigger_events
         THEN ProcessCommandPhase(s, "queuing", command)
         ELSE [s |-> s, results |-> <<command>>],
         LAMBDA r :
           IF r.results = << >>
           THEN [r.s EXCEPT !.ret = "False"]
           ELSE SendCommandAll(r.s, r.results, FALSE))

\* the length of the tuples send_commands puts into the command queue, and
\* the length _send_from_queue asks of them
CommandQueueTupleLen == 2
SendFromQueueTupleLen == 3

\* _send_from_queue
RECURSIVE SendFromQueue(_)
SendFromQueue(s) ==
    IF s.only_from_job THEN [s EXCEPT !.ret = "False"]
    ELSE IF s.command_queue = << >> THEN [s EXCEPT !.ret = "False"]
    ELSE LET entry == Head(s.command_queue)
             s1 == [s EXCEPT !.command_queue = Tail(@)]
         IN IF CommandQueueTupleLen # SendFromQueueTupleLen
            THEN SendFromQueue(s1)
            ELSE With(SendCommand(s1, entry.command),
                      LAMBDA s2 : IF s2.ret = "True" THEN s2 ELSE SendFromQueue(s2))

\* _send_next_from_job; a job whose get_next() returns None is over
RECURSIVE SendNextFromJob(_)
SendNextFromJob(s) ==
    IF ~Active(s) THEN [s EXCEPT !.ret = "None"]
    ELSE IF s.state # "PROCESSING" THEN [s EXCEPT !.ret = "False"]
    ELSE IF s.job.lines = << >>
         THEN [s EXCEPT !.job.active = FALSE, !.ret = "False"]
    ELSE LET line == Head(s.job.lines)
             s1 == [s EXCEPT !.job.lines = Tail(@)]
         IN With(SendCommand(s1, to_command(line, "None")),
                 LAMBDA s2 : IF s2.ret = "True" THEN s2 ELSE SendNextFromJob(s2))

\* _continue_sending
RECURSIVE ContinueSending(_)
ContinueSending(s) ==
    IF ~Active(s) THEN [s EXCEPT !.ret = "None"]
    ELSE IF s.state = "PROCESSING" /\ s.job.active /\ s.job.kind # "sd"
         THEN With(SendFromQueue(s),
                   LAMBDA s1 :
                     IF s1.ret = "True" THEN s1
                     ELSE With(SendNextFromJob(s1),
                               LAMBDA s2 : IF s2.ret = "True" THEN s2
                                           ELSE ContinueSending(s2)))
         ELSE SendFromQueue(s)

\* ------------------------------------------------------- writing the wire

\* the wire keeps its most recent MaxWire lines; via tells the path a line
\* took ("send": first transmission, "resend": from the history)
WireAppend(w, e) == IF Len(w) < MaxWire THEN Append(w, e) ELSE Append(Tail(w), e)

\* _do_send_without_checksum: transport.write(data + "\n")
DoSendWithoutChecksum(s, data, via) ==
    [s EXCEPT !.wire = WireAppend(@, [data |-> data \o <<10>>, via |-> via])]

\* _do_send_with_checksum that leaves the line number out of the checksum
C2_Mutant(s, line, line_number, via) ==
    LET command_to_send == <<78>> \o Str(line_number) \o <<32>> \o Bytes(line)
        checksum == ChecksumOf(Bytes(line))
    IN DoSendWithoutChecksum(s, command_to_send \o <<42>> \o Str(checksum), via)

\* _do_send_with_checksum: "N<line_number> <line>*<checksum>"
DoSendWithChecksum(s, line, line_number, via) ==
    LET command_to_send == <<78>> \o Str(line_number) \o <<32>> \o Bytes(line)
        checksum == ChecksumOf(command_to_send)
    IN DoSendWithoutChecksum(s, command_to_send \o <<42>> \o Str(checksum), via)

\* _do_increment_and_send_with_checksum that leaves the counter where it is
C1_Mutant(s, line) ==
    LET line_number == s.current_linenumber
        s1 == [s EXCEPT !.last_lines = LineHistoryAppend(@, line, line_number),
                        !.last_n = Some(line_number),
                        !.since_reset = @ + 1]
    IN DoSendWithChecksum(s1, line, line_number, "send")

\* _do_increment_and_send_with_checksum
DoIncrementAndSendWithChecksum(s, line) ==
    LET line_number == s.current_linenumber
        s1 == [s EXCEPT !.last_lines = LineHistoryAppend(@, line, line_number),
                        !.current_linenumber = line_number + 1,
                        \* history variables: the number this line carries,
                        \* one more line numbered since the last M110
                        !.last_n = Some(line_number),
                        !.since_reset = @ + 1]
    IN DoSendWithChecksum(s1, line, line_number, "send")

\* ------------------------------------------------------------ state entry

\* _on_state_connecting
OnStateConnecting(s, old_state) ==
    IF old_state # "DISCONNECTED" THEN s
    ELSE IF s.flavor.hello # "None"
         THEN LET s1 == SendCommand(s, to_command(s.flavor.hello, "None"))
              IN [s1 EXCEPT !.clear_to_send = CountedEventSet(@)]
         ELSE s

\* _on_state_connected
C19_Mutant(s, old_state) ==
    IF old_state = "CONNECTING"
    THEN LET s1 == SendCommand(s, to_command(command_set_line0, "None"))
         IN [s1 EXCEPT !.poller = TRUE]
    ELSE s

OnStateConnected(s, old_state) ==
    IF old_state = "CONNECTING"
    THEN LET s1 == SendCommand(s, to_command(command_set_line0, "None"))
         IN [s1 EXCEPT !.clear_to_send = CountedEventSet(@), !.poller = TRUE]
    ELSE s

\* the state setter of Protocol: the new state's _on_state_ method runs
SetState(s, new_state) ==
    LET old_state == s.state
        s1 == [s EXCEPT !.state = new_state]
    IN CASE new_state = "CONNECTING" -> OnStateConnecting(s1, old_state)
         [] new_state = "CONNECTED" -> OnStateConnected(s1, old_state)
         [] new_state \in {"DISCONNECTED", "DISCONNECTED_WITH_ERROR"} ->
                [s1 EXCEPT !.poller = FALSE]
         [] OTHER -> s1

\* -------------------------------------------------------------- receiving

\* _finish_heatup
FinishHeatup(s) == IF s.heating THEN [s EXCEPT !.heating = FALSE] ELSE s

\* _send_next_from_resend(again)
SendNextFromResend(s, again) ==
    LET s0 == [s EXCEPT !.last_communication_error = "None"]
        cursor0 == IF again /\ IsNone(s0.resend_linenumber)
                   THEN Some(s0.current_linenumber) ELSE s0.resend_linenumber
        cursor == IF again THEN Some(Val(cursor0) - 1) ELSE cursor0
        s1 == [s0 EXCEPT !.resend_linenumber = cursor]
    IN IF IsNone(cursor) \/ Val(cursor) \notin DOMAIN s1.last_lines
       THEN [s1 EXCEPT !.ret = "False"]
       ELSE LET linenumber == Val(cursor)
                s2 == EnqueueForSending(s1, Command(s1.last_lines[linenumber]),
                                        Some(linenumber), TRUE, TRUE)
                result == s2.ret
            IN IF linenumber + 1 = s2.current_linenumber
               THEN [s2 EXCEPT !.resend_requested = None,
                               !.resend_linenumber = None,
                               !.resend_count = Some(0),
                               !.resend_active = FALSE,
                               !.ret = result]
               ELSE [s2 EXCEPT !.resend_linenumber = Some(linenumber + 1),
                               !.ret = result]

\* _send_same_from_resend
SendSameFromResend(s) == SendNextFromResend(s, TRUE)

\* _on_comm_any
OnCommAny(s) ==
    IF s.state = "CONNECTING" /\ s.flavor.hello # "None"
    THEN LET s1 == SendCommand(s, to_command(s.flavor.hello, "None"))
         IN [s1 EXCEPT !.clear_to_send = CountedEventSet(@)]
    ELSE s

\* the consecutive_max _on_comm_timeout applies
ConsecutiveMax(s) ==
    IF s.long_running_command THEN ConsecutiveMaxLongRunning
    ELSE IF s.state \in {"PROCESSING", "PAUSING", "CANCELLING"}
         THEN ConsecutiveMaxProcessing
         ELSE ConsecutiveMaxOther

\* the branch of _on_comm_timeout taken once the maximum is exceeded
TimeoutGiveUp(s) == [s EXCEPT !.gave_up = TRUE]

\* _on_comm_timeout
OnCommTimeout(s) ==
    IF s.state \notin {"PROCESSING", "PAUSED", "CONNECTED"} THEN s
    ELSE LET consecutive_max == ConsecutiveMax(s)
             s1 == [s EXCEPT !.timeout_consecutive = @ + 1]
         IN IF 0 < consecutive_max /\ consecutive_max < s1.timeout_consecutive
            THEN TimeoutGiveUp(s1)
            ELSE IF ~IsNone(s1.resend_requested)
            THEN With(SendSameFromResend(s1),
                      LAMBDA s2 :
                        IF s2.ret = "True"
                        THEN [s2 EXCEPT !.clear_to_send = CountedEventSet(@)] ELSE s2)
            ELSE IF s1.heating THEN FinishHeatup(s1)
            ELSE IF s1.long_running_command THEN s1
            ELSE IF s1.state \in {"PROCESSING", "PAUSED"}
            THEN With(SendCommand(s1, to_command("M105", "temperature")),
                      LAMBDA s2 :
                        IF s2.ret = "True"
                        THEN [s2 EXCEPT !.clear_to_send = CountedEventSet(@)] ELSE s2)
            ELSE IF CountedEventBlocked(s1.clear_to_send)
            THEN [s1 EXCEPT !.clear_to_send = CountedEventSet(@)]
            ELSE s1

\* _switch_flavor that keeps the error names of the flavor it replaces
C20_Mutant(s, new_flavor) ==
    [s EXCEPT !.flavor = new_flavor,
              !.registered_messages = RegisteredMessagesOf(new_flavor)]

\* _switch_flavor
SwitchFlavor(s, new_flavor) ==
    LET s1 == [s EXCEPT !.flavor = new_flavor]
    IN [s1 EXCEPT !.registered_messages = RegisteredMessagesOf(s1.flavor),
                  !.error_messages = ErrorMessagesOf(s1.flavor)]

\* the loop of _on_message_firmware_info over all_flavors(), from the i-th:
\* every flavor that claims the firmware is installed in turn
RECURSIVE SwitchToClaiming(_, _, _, _)
SwitchToClaiming(s, i, firmware_name, data) ==
    IF i > Len(all_flavors) THEN s
    ELSE LET f == all_flavors[i]
         IN SwitchToClaiming(IF f.identifier # {} /\ firmware_name \in f.identifier
                             THEN SwitchFlavor(s, f) ELSE s,
                             i + 1, firmware_name, data)

\* _on_message_firmware_info
OnMessageFirmwareInfo(s, firmware_name, data) ==
    IF ~s.firmware_identified /\ firmware_name # ""
    THEN [SwitchToClaiming(s, 1, firmware_name, data)
             EXCEPT !.firmware_identified = TRUE,
                    !.firmware_name = firmware_name,
                    !.firmware_info = data]
    ELSE s

\* _on_comm_ignore_ok
OnCommIgnoreOk(s) == [s EXCEPT !.ignore_ok = @ + 1]

\* _on_comm_ok: a former tool that is truthy becomes the current tool again
RestoreFormerTool(s) ==
    IF Truthy(s.former_tool)
    THEN [s EXCEPT !.current_tool = Val(s.former_tool), !.former_tool = None,
                   !.stashed = FALSE]
    ELSE s

\* _on_comm_ok that starts the count of consecutive timeouts anew
C37_Mutant(s) ==
    IF s.ignore_ok > 0 THEN [s EXCEPT !.ignore_ok = @ - 1]
    ELSE IF s.state = "CONNECTING" THEN SetState(s, "CONNECTED")
    ELSE LET s1 == FinishHeatup(RestoreFormerTool(
                       [s EXCEPT !.clear_to_send = CountedEventSet(@),
                                 !.long_running_command = FALSE,
                                 !.timeout_consecutive = 0]))
         IN IF s1.state \notin {"PROCESSING", "CONNECTED", "PAUSED"} THEN s1
            ELSE IF ~IsNone(s1.resend_requested)
                 THEN SendNextFromResend(s1, FALSE)
                 ELSE ContinueSending(s1)

\* _on_comm_ok that counts an ignored ok and handles it all the same
C18_Mutant(s) ==
    LET s0 == IF s.ignore_ok > 0 THEN [s EXCEPT !.ignore_ok = @ - 1] ELSE s
    IN IF s0.state = "CONNECTING" THEN SetState(s0, "CONNECTED")
       ELSE LET s1 == FinishHeatup(RestoreFormerTool(
                          [s0 EXCEPT !.clear_to_send = CountedEventSet(@),
                                     !.long_running_command = FALSE]))
            IN IF s1.state \notin {"PROCESSING", "CONNECTED", "PAUSED"} THEN s1
               ELSE IF ~IsNone(s1.resend_requested)
                    THEN SendNextFromResend(s1, FALSE)
                    ELSE ContinueSending(s1)

\* _on_comm_ok
OnCommOk(s) ==
    IF s.ignore_ok > 0 THEN [s EXCEPT !.ignore_ok = @ - 1]
    ELSE IF s.state = "CONNECTING" THEN SetState(s, "CONNECTED")
    ELSE LET s1 == FinishHeatup(RestoreFormerTool(
                       [s EXCEPT !.clear_to_send = CountedEventSet(@),
                                 !.long_running_command = FALSE]))
         IN IF s1.state \notin {"PROCESSING", "CONNECTED", "PAUSED"} THEN s1
            ELSE IF ~IsNone(s1.resend_requested)
                 THEN SendNextFromResend(s1, FALSE)
                 ELSE ContinueSending(s1)

\* _on_comm_wait
OnCommWait(s) == IF s.state = "PROCESSING" THEN OnCommOk(s) ELSE s

\* _on_comm_start
OnCommStart(s) == IF s.state = "CONNECTING" THEN SetState(s, "CONNECTED") ELSE s

\* _on_error_communication
OnErrorCommunication(s, error_type) ==
    [s EXCEPT !.last_communication_error = error_type]

\* the resend window opened without marking the send queue
C7_Mutant(s, linenumber) ==
    [s EXCEPT !.resend_requested = Some(linenumber),
              !.resend_linenumber = Some(linenumber),
              !.resend_count = Some(0),
              !.rs_from = linenumber, !.rs_to = s.current_linenumber,
              !.rs_done = {}, !.rs_timeout = FALSE]

\* the part of _on_comm_resend that opens the resend window
OpenResendWindow(s, linenumber) ==
    [s EXCEPT !.resend_requested = Some(linenumber),
              !.resend_linenumber = Some(linenumber),
              !.resend_count = Some(0),
              !.resend_active = TRUE,
              \* history variables: the window asked for, nothing re-sent yet
              !.rs_from = linenumber, !.rs_to = s.current_linenumber,
              !.rs_done = {}, !.rs_timeout = FALSE]

\* _on_comm_resend that treats a busy engine like an idle one
C10_Mutant(s, linenumber) ==
    IF IsNone(s.resend_requested) /\ linenumber = s.current_linenumber THEN s
    ELSE LET last_communication_error == s.last_communication_error
             s1 == [s EXCEPT !.last_communication_error = "None"]
         IN IF /\ last_communication_error = "linenumber"
               /\ Some(linenumber) = s1.resend_requested
               /\ Val(s1.resend_count) < s1.current_linenumber - linenumber - 1
            THEN [s1 EXCEPT !.resend_count = Some(Val(@) + 1)]
            ELSE IF linenumber \notin DOMAIN s1.last_lines
            THEN [s1 EXCEPT !.error_logged = TRUE]
            ELSE OpenResendWindow(s1, linenumber)

\* _on_comm_resend
OnCommResend(s, linenumber) ==
    IF IsNone(s.resend_requested) /\ linenumber = s.current_linenumber THEN s
    ELSE LET last_communication_error == s.last_communication_error
             s1 == [s EXCEPT !.last_communication_error = "None"]
         IN IF /\ last_communication_error = "linenumber"
               /\ Some(linenumber) = s1.resend_requested
               /\ Val(s1.resend_count) < s1.current_linenumber - linenumber - 1
            THEN [s1 EXCEPT !.resend_count = Some(Val(@) + 1)]
            ELSE IF linenumber \notin DOMAIN s1.last_lines
            THEN LET s2 == [s1 EXCEPT !.error_logged = TRUE]
                 IN IF IsBusy(s2)
                    THEN OpenResendWindow(cancel_processing(s2, TRUE), linenumber)
                    ELSE s2
            ELSE OpenResendWindow(s1, linenumber)

\* ------------------------------------------------------------------ state

(* The fields of the engine keep the names of the source.  send_q, resend_q  *)
(* and resend_active are the SendQueue; pc and cur are the sending thread's  *)
(* position and the line it has written and not yet accounted for; ret is   *)
(* what the call that ran last returned.                                     *)
(* History variables, which the engine does not read:                        *)
(*   inflight      ack-requiring lines written minus oks received            *)
(*   held          the thread holds a credit taken by wait()                 *)
(*   stashed       a wait-for-temperature command stashed the former tool    *)
(*   gave_up       a timeout has found the counter above the maximum         *)
(*   error_logged  the last step logged an error                             *)
(*   cancel_error  the error flag of the last cancel_processing              *)
(*   nevents       unsolicited events so far                                 *)
(*   njobs         jobs started so far                                       *)
(*   last_n        the number of the last line sent with a fresh number      *)
(*   rs_from, rs_to, rs_done, rs_timeout                                     *)
(*                 the resend window last opened, the lines re-sent since,   *)
(*                 whether a timeout was handled while it was open           *)
(*   reset_k       the number the last M110 through the send loop set        *)
(*   since_reset   lines sent with a fresh number since then                 *)
(* dequeued is the queue entry the sending thread holds between its get()   *)
(* and the rest of the iteration.  orphan is the position of the sending    *)
(* thread of an earlier connect() that has not ended (pc "none": no such    *)
(* thread).                                                                  *)
VARIABLES
    state,
    job,
    clear_to_send,
    send_q,
    resend_q,
    resend_active,
    command_queue,
    current_linenumber,
    last_lines,
    resend_requested,
    resend_linenumber,
    resend_count,
    last_communication_error,
    long_running_command,
    heating,
    only_from_job,
    trigger_events,
    ignore_ok,
    timeout_consecutive,
    send_queue_active,
    poller,
    flavor,
    wire,
    pc,
    cur,
    inflight,
    held,
    ret,
    error_logged,
    cancel_error,
    nevents,
    njobs,
    last_n,
    rs_from,
    rs_to,
    rs_done,
    rs_timeout,
    reset_k,
    since_reset,
    dequeued,
    orphan,
    registered_messages,
    error_messages,
    firmware_identified,
    firmware_name,
    firmware_info,
    gcode_hooks,
    firmware_capabilities,
    current_tool,
    former_tool,
    temperatures,
    stashed,
    gave_up

vars ==
    <<state, job, clear_to_send, send_q, resend_q, resend_active,
      command_queue, current_linenumber, last_lines, resend_requested,
      resend_linenumber, resend_count, last_communication_error,
      long_running_command, heating, only_from_job, trigger_events,
      ignore_ok, timeout_consecutive, send_queue_active, poller, flavor,
      wire, pc, cur, inflight, held, ret, error_logged, cancel_error, nevents,
      njobs, last_n, rs_from, rs_to, rs_done, rs_timeout,
      reset_k,
      since_reset,
      dequeued,
      orphan,
      registered_messages,
      error_messages,
      firmware_identified,
      firmware_name,
      firmware_info,
      gcode_hooks,
      firmware_capabilities,
      current_tool,
      former_tool,
      temperatures,
      stashed,
      gave_up>>

\* the engine as one record, and the step that installs a record
S ==
    [state |-> state,
     job |-> job,
     clear_to_send |-> clear_to_send,
     send_q |-> send_q,
     resend_q |-> resend_q,
     resend_active |-> resend_active,
     command_queue |-> command_queue,
     current_linenumber |-> current_linenumber,
     last_lines |-> last_lines,
     resend_requested |-> resend_requested,
     resend_linenumber |-> resend_linenumber,
     resend_count |-> resend_count,
     last_communication_error |-> last_communication_error,
     long_running_command |-> long_running_command,
     heating |-> heating,
     only_from_job |-> only_from_job,
     trigger_events |-> trigger_events,
     ignore_ok |-> ignore_ok,
     timeout_consecutive |-> timeout_consecutive,
     send_queue_active |-> send_queue_active,
     poller |-> poller,
     flavor |-> flavor,
     wire |-> wire,
     pc |-> pc,
     cur |-> cur,
     inflight |-> inflight,
     held |-> held,
     ret |-> ret,
     error_logged |-> error_logged,
     cancel_error |-> cancel_error,
     nevents |-> nevents,
     njobs |-> njobs,
     last_n |-> last_n,
     rs_from |-> rs_from,
     rs_to |-> rs_to,
     rs_done |-> rs_done,
     rs_timeout |-> rs_timeout,
     reset_k |-> reset_k,
     since_reset |-> since_reset,
     dequeued |-> dequeued,
     orphan |-> orphan,
     registered_messages |-> registered_messages,
     error_messages |-> error_messages,
     firmware_identified |-> firmware_identified,
     firmware_name |-> firmware_name,
     firmware_info |-> firmware_info,
     gcode_hooks |-> gcode_hooks,
     firmware_capabilities |-> firmware_capabilities,
     current_tool |-> current_tool,
     former_tool |-> former_tool,
     temperatures |-> temperatures,
     stashed |-> stashed,
     gave_up |-> gave_up]

\* the value a handler returns is computed once and then assigned
Commit(r) ==
    \E x \in {r} :
        /\ state' = x.state
        /\ job' = x.job
        /\ clear_to_send' = x.clear_to_send
        /\ send_q' = x.send_q
        /\ resend_q' = x.resend_q
        /\ resend_active' = x.resend_active
        /\ command_queue' = x.command_queue
        /\ current_linenumber' = x.current_linenumber
        /\ last_lines' = x.last_lines
        /\ resend_requested' = x.resend_requested
        /\ resend_linenumber' = x.resend_linenumber
        /\ resend_count' = x.resend_count
        /\ last_communication_error' = x.last_communication_error
        /\ long_running_command' = x.long_running_command
        /\ heating' = x.heating
        /\ only_from_job' = x.only_from_job
        /\ trigger_events' = x.trigger_events
        /\ ignore_ok' = x.ignore_ok
        /\ timeout_consecutive' = x.timeout_consecutive
        /\ send_queue_active' = x.send_queue_active
        /\ poller' = x.poller
        /\ flavor' = x.flavor
        /\ wire' = x.wire
        /\ pc' = x.pc
        /\ cur' = x.cur
        /\ inflight' = x.inflight
        /\ held' = x.held
        /\ ret' = x.ret
        /\ error_logged' = x.error_logged
        /\ cancel_error' = x.cancel_error
        /\ nevents' = x.nevents
        /\ njobs' = x.njobs
        /\ last_n' = x.last_n
        /\ rs_from' = x.rs_from
        /\ rs_to' = x.rs_to
        /\ rs_done' = x.rs_done
        /\ rs_timeout' = x.rs_timeout
        /\ reset_k' = x.reset_k
        /\ since_reset' = x.since_reset
        /\ dequeued' = x.dequeued
        /\ orphan' = x.orphan
        /\ registered_messages' = x.registered_messages
        /\ error_messages' = x.error_messages
        /\ firmware_identified' = x.firmware_identified
        /\ firmware_name' = x.firmware_name
        /\ firmware_info' = x.firmware_info
        /\ gcode_hooks' = x.gcode_hooks
        /\ firmware_capabilities' = x.firmware_capabilities
        /\ current_tool' = x.current_tool
        /\ former_tool' = x.former_tool
        /\ temperatures' = x.temperatures
        /\ stashed' = x.stashed
        /\ gave_up' = x.gave_up

\* what a step starts from: the per-step history variables are reset
S0 == [S EXCEPT !.ret = "None", !.error_logged = FALSE]

NoJob == [kind |-> "none", parallel |-> FALSE, lines |-> << >>, active |-> FALSE]
NoCur == [use_up_clear |-> FALSE, line |-> ""]
\* no sending thread of an earlier connect() is left
NoOrphan == [pc |-> "none", cur |-> NoCur, held |-> FALSE]

\* the job the model processes: S2's two-line file
JobLines == <<"G28", "G1 X10">>

\* the state after __init__, for a flavor
InitState(f) ==
    [state |-> "DISCONNECTED", job |-> NoJob, clear_to_send |-> 0,
     send_q |-> << >>, resend_q |-> << >>, resend_active |-> FALSE,
     command_queue |-> << >>, current_linenumber |-> 1,
     last_lines |-> LineHistoryEmpty, resend_requested |-> None,
     resend_linenumber |-> None, resend_count |-> None,
     last_communication_error |-> "None", long_running_command |-> FALSE,
     heating |-> FALSE, only_from_job |-> FALSE, trigger_events |-> TRUE,
     ignore_ok |-> 0, timeout_consecutive |-> 0, send_queue_active |-> FALSE,
     poller |-> FALSE, flavor |-> f, wire |-> << >>, pc |-> "idle",
     cur |-> NoCur, inflight |-> 0, held |-> FALSE, ret |-> "None",
     error_logged |-> FALSE, cancel_error |-> FALSE, nevents |-> 0, njobs |-> 0, last_n |-> None,
     rs_from |-> 0, rs_to |-> 0, rs_done |-> {}, rs_timeout |-> FALSE,
     reset_k |-> None,
     since_reset |-> 0,
     dequeued |-> None,
     orphan |-> NoOrphan,
     registered_messages |-> RegisteredMessagesOf(f),
     error_messages |-> ErrorMessagesOf(f),
     firmware_identified |-> FALSE,
     firmware_name |-> "None",
     firmware_info |-> "{}",
     gcode_hooks |-> NoHooks,
     firmware_capabilities |-> NoCapabilities,
     current_tool |-> 0,
     former_tool |-> Some(0),
     temperatures |-> NoTemperatures,
     stashed |-> FALSE,
     gave_up |-> FALSE]

Init ==
    \E f \in Flavors :
        /\ state = InitState(f).state
        /\ job = InitState(f).job
        /\ clear_to_send = InitState(f).clear_to_send
        /\ send_q = InitState(f).send_q
        /\ resend_q = InitState(f).resend_q
        /\ resend_active = InitState(f).resend_active
        /\ command_queue = InitState(f).command_queue
        /\ current_linenumber = InitState(f).current_linenumber
        /\ last_lines = InitState(f).last_lines
        /\ resend_requested = InitState(f).resend_requested
        /\ resend_linenumber = InitState(f).resend_linenumber
        /\ resend_count = InitState(f).resend_count
        /\ last_communication_error = InitState(f).last_communication_error
        /\ long_running_command = InitState(f).long_running_command
        /\ heating = InitState(f).heating
        /\ only_from_job = InitState(f).only_from_job
        /\ trigger_events = InitState(f).trigger_events
        /\ ignore_ok = InitState(f).ignore_ok
        /\ timeout_consecutive = InitState(f).timeout_consecutive
        /\ send_queue_active = InitState(f).send_queue_active
        /\ poller = InitState(f).poller
        /\ flavor = InitState(f).flavor
        /\ wire = InitState(f).wire
        /\ pc = InitState(f).pc
        /\ cur = InitState(f).cur
        /\ inflight = InitState(f).inflight
        /\ held = InitState(f).held
        /\ ret = InitState(f).ret
        /\ error_logged = InitState(f).error_logged
        /\ cancel_error = InitState(f).cancel_error
        /\ nevents = InitState(f).nevents
        /\ njobs = InitState(f).njobs
        /\ last_n = InitState(f).last_n
        /\ rs_from = InitState(f).rs_from
        /\ rs_to = InitState(f).rs_to
        /\ rs_done = InitState(f).rs_done
        /\ rs_timeout = InitState(f).rs_timeout
        /\ reset_k = InitState(f).reset_k
        /\ since_reset = InitState(f).since_reset
        /\ dequeued = InitState(f).dequeued
        /\ orphan = InitState(f).orphan
        /\ registered_messages = InitState(f).registered_messages
        /\ error_messages = InitState(f).error_messages
        /\ firmware_identified = InitState(f).firmware_identified
        /\ firmware_name = InitState(f).firmware_name
        /\ firmware_info = InitState(f).firmware_info
        /\ gcode_hooks = InitState(f).gcode_hooks
        /\ firmware_capabilities = InitState(f).firmware_capabilities
        /\ current_tool = InitState(f).current_tool
        /\ former_tool = InitState(f).former_tool
        /\ temperatures = InitState(f).temperatures
        /\ stashed = InitState(f).stashed
        /\ gave_up = InitState(f).gave_up

\* ------------------------------------------------------------ the actions

\* a step that is an unsolicited event
Event(s) == [s EXCEPT !.nevents = @ + 1]

\* connect(): the sending thread starts, the state becomes CONNECTING
connect(s) ==
    SetState([s EXCEPT !.send_queue_active = TRUE, !.pc = "wait"], "CONNECTING")

Connect ==
    /\ state = "DISCONNECTED"
    /\ pc = "idle"
    /\ Commit(connect(S0))

\* Protocol.disconnect: the state becomes DISCONNECTED; the teardown grants
\* a credit and puts a sentinel, an entry without a line, into the send queue
\* to wake the sending thread
protocol_disconnect(s) ==
    LET s1 == SetState(s, "DISCONNECTED")
        sentinel == [command |-> Command(""), linenumber |-> None, processed |-> TRUE]
    IN [s1 EXCEPT !.clear_to_send = CountedEventSet(@),
                  !.send_q = Append(@, sentinel)]

\* disconnect()
disconnect(s) ==
    protocol_disconnect([s EXCEPT !.send_queue_active = FALSE, !.poller = FALSE])

Disconnect(max_events) ==
    /\ IsOperational(S)
    /\ pc # "idle"
    /\ nevents < max_events
    /\ Len(send_q) < MaxQueue
    /\ Commit(disconnect(Event(S0)))

\* connect() after a disconnect(): a new sending thread starts whether or
\* not the thread of the earlier connect() has ended
reconnect(s) ==
    LET left == IF s.pc = "done" THEN s.orphan
                ELSE [pc |-> s.pc, cur |-> s.cur, held |-> s.held]
    IN connect([s EXCEPT !.orphan = left, !.cur = NoCur, !.held = FALSE])

Reconnect ==
    /\ state = "DISCONNECTED"
    /\ pc # "idle"
    /\ pc = "done" \/ orphan.pc \in {"none", "done"}
    /\ Len(send_q) < MaxQueue
    /\ Commit(reconnect(S0))

\* process(job): kind tells the class of the job ("stream" is a
\* LocalGcodeStreamjob), parallel its runs_parallel; Protocol.process starts it
process(s, kind, parallel, lines) ==
    LET s1 == IF kind = "stream"
              THEN [s EXCEPT !.only_from_job = TRUE, !.trigger_events = FALSE]
              ELSE [s EXCEPT !.only_from_job = FALSE, !.trigger_events = TRUE]
    IN [s1 EXCEPT !.job = [kind |-> kind, parallel |-> parallel,
                           lines |-> lines, active |-> TRUE],
                  !.state = "PROCESSING",
                  !.njobs = @ + 1]

Process ==
    /\ state = "CONNECTED"
    /\ njobs < MaxJobs
    /\ Commit(process(S0, "file", FALSE, JobLines))

\* Protocol.pause_processing
PauseProcessing(max_events) ==
    /\ state = "PROCESSING"
    /\ nevents < max_events
    /\ Commit(pause_processing(Event(S0)))

\* Protocol.resume_processing
ResumeProcessing ==
    /\ state = "PAUSED"
    /\ Commit([S0 EXCEPT !.state = "PROCESSING"])

\* the job's last line has been taken: Protocol ends the job
JobDone ==
    /\ state = "PROCESSING"
    /\ ~job.active
    /\ Commit(SetState(S0, "CONNECTED"))

\* a cancelled job has been wound up
CancelDone ==
    /\ state = "CANCELLING"
    /\ Commit(SetState(S0, "CONNECTED"))

\* _send_commands: each command goes through _send_command
send_commands_internal(s, line, type) ==
    SendCommand(s, to_command(line, type))

\* send_commands(command, command_type=type)
send_commands(s, line, type) ==
    IF s.state = "PROCESSING" /\ ~s.job.parallel
    THEN IF TypeInQueue(s.command_queue, type)
         THEN [s EXCEPT !.ret = "False"]
         ELSE [s EXCEPT !.command_queue =
                            Append(@, [command |-> to_command(line, type)]),
                        !.ret = "True"]
    ELSE IF IsOperational(s)
         THEN [send_commands_internal(s, line, type) EXCEPT !.ret = "None"]
         ELSE s

\* _send_commands(*commands): the commands go through _send_command in
\* call order
RECURSIVE send_commands_internal_all(_, _, _)
send_commands_internal_all(s, commands, type) ==
    IF commands = << >> THEN s
    ELSE With(send_commands_internal(s, Head(commands), type),
              LAMBDA s1 : send_commands_internal_all(s1, Tail(commands), type))

\* send_commands(*commands, command_type=type, force=force): while a job
\* that does not run in parallel is processed the loop over the commands
\* returns from its first iteration
send_commands_all(s, commands, type, force) ==
    IF s.state = "PROCESSING" /\ ~s.job.parallel /\ ~force
    THEN LET command_type == IF Len(commands) > 1 THEN "None" ELSE type
         IN IF commands = << >> THEN s
            ELSE IF TypeInQueue(s.command_queue, command_type)
                 THEN [s EXCEPT !.ret = "False"]
                 ELSE [s EXCEPT !.command_queue =
                                    Append(@, [command |->
                                        to_command(Head(commands), command_type)]),
                                !.ret = "True"]
    ELSE IF IsOperational(s) \/ force
         THEN [send_commands_internal_all(s, commands, type)
                   EXCEPT !.ret = "None"]
         ELSE s

\* the capabilities a firmware reports
CAPABILITY_AUTOREPORT_TEMP == "AUTOREPORT_TEMP"
CAPABILITY_AUTOREPORT_SD_STATUS == "AUTOREPORT_SD_STATUS"
CAPABILITY_BUSY_PROTOCOL == "BUSY_PROTOCOL"
Capabilities ==
    {CAPABILITY_AUTOREPORT_TEMP, CAPABILITY_AUTOREPORT_SD_STATUS,
     CAPABILITY_BUSY_PROTOCOL}

\* _capability_support.get(cap, False): __init__ enters one capability
capability_support(cap) == cap = CAPABILITY_AUTOREPORT_TEMP

\* flavor.command_autoreport_temperature and command_autoreport_sd_status
\* for the intervals the engine is constructed with
command_autoreport_temperature == "M155 S2"
command_autoreport_sd_status == "M27 S1"

\* _set_autoreport_temperature_interval, _set_autoreport_sdstatus_interval
SetAutoreportTemperatureInterval(s) ==
    send_commands(s, command_autoreport_temperature, "None")
SetAutoreportSdstatusInterval(s) ==
    send_commands(s, command_autoreport_sd_status, "None")

\* firmware_capabilities[cap] = enabled
RecordCapability(caps, cap, enabled) ==
    [c \in DOMAIN caps \cup {cap} |-> IF c = cap THEN enabled ELSE caps[c]]

\* _on_message_firmware_capability
OnMessageFirmwareCapability(s, cap, enabled) ==
    With([s EXCEPT !.firmware_capabilities = RecordCapability(@, cap, enabled)],
         LAMBDA s1 :
           IF capability_support(cap)
           THEN IF cap = CAPABILITY_AUTOREPORT_TEMP /\ enabled
                THEN SetAutoreportTemperatureInterval(s1)
                ELSE IF cap = CAPABILITY_AUTOREPORT_SD_STATUS /\ enabled
                THEN SetAutoreportSdstatusInterval(s1)
                ELSE s1
           ELSE s1)

\* what the user sends
UserInputs ==
    {<<"M105", "temperature_poll">>, <<"M109 S200", "None">>,
     <<"@pause", "None">>, <<"", "None">>}

UserSend(line, type, max_events) ==
    /\ nevents < max_events
    /\ Len(send_q) < MaxQueue
    /\ Len(command_queue) < MaxQueue
    /\ Commit(send_commands(Event(S0), line, type))

\* the user sends several commands in one call
UserSendAll(commands, type, force, max_events) ==
    /\ nevents < max_events
    /\ Len(send_q) + Len(commands) <= MaxQueue
    /\ Len(command_queue) + Len(commands) <= MaxQueue
    /\ Commit(send_commands_all(Event(S0), commands, type, force))

\* the temperature poller's tick (_poll_temperature)
poll_temperature(s) ==
    IF IsOperational(s) /\ ~s.only_from_job /\ CanSend(s)
    THEN SendCommand(s, to_command("M105", "temperature_poll"))
    ELSE s

PollTemperature(max_events) ==
    /\ poller
    /\ nevents < max_events
    /\ Len(send_q) < MaxQueue
    /\ Commit(poll_temperature(Event(S0)))

\* a line was received while the transport is open: _on_comm_any runs
\* before the handler of the first message the line matches
Receiving ==
    /\ pc # "idle"
    /\ IsOperational(S)
    /\ Len(send_q) < MaxQueue
    /\ Len(resend_q) < MaxQueue

\* "ok", the firmware's answer to a line in flight: the history variable
\* drops one
RecvOk ==
    /\ Receiving
    /\ inflight > 0
    /\ Commit(OnCommOk(OnCommAny([S0 EXCEPT !.inflight = IF @ > 0 THEN @ - 1 ELSE 0])))

\* a line the flavor reads as the announcement of an ok to be ignored
RecvIgnoreOk(max_events) ==
    /\ Receiving
    /\ nevents < max_events
    /\ Commit(OnCommIgnoreOk(OnCommAny(Event(S0))))

\* a line the flavor reads as the firmware's report of its name
RecvFirmwareInfo(name, data, max_events) ==
    /\ Receiving
    /\ nevents < max_events
    /\ Commit(OnMessageFirmwareInfo(OnCommAny(Event(S0)), name, data))

\* "wait"
RecvWait(max_events) ==
    /\ Receiving
    /\ nevents < max_events
    /\ state = "PROCESSING"
    /\ Commit(OnCommWait(OnCommAny(Event(S0))))

\* "start"
RecvStart ==
    /\ Receiving
    /\ state = "CONNECTING"
    /\ Commit(OnCommStart(OnCommAny(S0)))

\* _on_message_temperature: the tool of a key of the report
ToolOfRep(tool_rep) ==
    CASE tool_rep = "T0" -> "tool0"
      [] tool_rep = "T1" -> "tool1"
      [] tool_rep = "B" -> "bed"

\* _on_message_temperature: every tool of the report is recorded
RECURSIVE SetTemperatures(_, _, _)
SetTemperatures(temps, report, reps) ==
    IF reps = {} THEN temps
    ELSE LET tool_rep == CHOOSE x \in reps : TRUE
         IN SetTemperatures(
                SetTemperature(temps, ToolOfRep(tool_rep),
                               report[tool_rep].actual, report[tool_rep].target),
                report, reps \ {tool_rep})

OnMessageTemperature(s, report, heatup_detected) ==
    [s EXCEPT !.heating = @ \/ heatup_detected,
              !.temperatures = SetTemperatures(@, report, DOMAIN report)]

\* a line the flavor reads as a temperature report
RecvTemperature(report, max_events) ==
    /\ Receiving
    /\ nevents < max_events
    /\ Commit(OnMessageTemperature(OnCommAny(Event(S0)), report, FALSE))

\* a line the flavor reads as a capability report
RecvCapability(cap, enabled, max_events) ==
    /\ Receiving
    /\ nevents < max_events
    /\ Commit(OnMessageFirmwareCapability(OnCommAny(Event(S0)), cap, enabled))

\* "Resend: <linenumber>"
RecvResend(linenumber, max_events) ==
    /\ nevents < max_events
    /\ Receiving
    /\ Commit(OnCommResend(OnCommAny(Event(S0)), linenumber))

\* "Error: ..." that the flavor classifies as a communication error
RecvError(error_type, max_events) ==
    /\ Receiving
    /\ nevents < max_events
    /\ last_communication_error # error_type
    /\ Commit(OnErrorCommunication(OnCommAny(Event(S0)), error_type))

\* the pushing transport's read timed out; the history variable notes a
\* timeout handled while a resend is outstanding
on_timeout(s) ==
    OnCommTimeout(OnCommAny(
        [s EXCEPT !.rs_timeout = @ \/ (~IsNone(s.resend_requested)
                                        /\ s.state \in {"PROCESSING", "PAUSED", "CONNECTED"})]))

RecvTimeout(max_events) ==
    /\ Receiving
    /\ nevents < max_events
    /\ Commit(on_timeout(Event(S0)))

\* ---------------------------------------------------------- the send loop

\* whether the firmware acknowledges a written line: the line is a G-code, or
\* the flavor's firmware acknowledges every line
RequiresAck(s, line) == KindOf(line) = "gcode" \/ s.flavor.unknown_requires_ack

\* the checksum decision of _send_loop
SendWithChecksum(s, command) ==
    IF ~s.flavor.message_integrity
    THEN LET command_requiring_checksum ==
                 IsGcode(command) /\ command.code \in s.flavor.checksum_requiring_commands
             command_allowing_checksum ==
                 IsGcode(command) \/ s.flavor.unknown_with_checksum
             checksum_enabled ==
                 s.flavor.always_send_checksum
                 \/ (s.state = "PROCESSING" /\ ~s.flavor.never_send_checksum)
         IN command_requiring_checksum \/ (command_allowing_checksum /\ checksum_enabled)
    ELSE FALSE

\* the end of an iteration that wrote a line: the "sent" phase, and the
\* decision whether the line uses up a clear; the thread stands before it
SendLoopSent(s, command) ==
    With(ProcessCommandPhase(s, "sent", command).s,
         LAMBDA s1 :
           LET use_up_clear == s1.flavor.unknown_requires_ack \/ IsGcode(command)
           IN [s1 EXCEPT !.pc = "sent",
                         !.cur = [use_up_clear |-> use_up_clear,
                                  line |-> command.line],
                         !.held = FALSE,
                         !.inflight = IF RequiresAck(s1, command.line)
                                      THEN @ + 1 ELSE @])

\* an iteration of _send_loop that writes an at-command like any other line
C23_Mutant(s, entry) ==
    With(IF ~entry.processed
         THEN ProcessCommandPhase(s, "sending", entry.command)
         ELSE [s |-> s, results |-> <<entry.command>>],
         LAMBDA r :
           IF r.results = << >> \/ r.results[1].line = ""
           THEN ContinueSending(r.s)
           ELSE SendLoopSent(
                    IF SendWithChecksum(r.s, r.results[1])
                    THEN DoIncrementAndSendWithChecksum(r.s, r.results[1].line)
                    ELSE DoSendWithoutChecksum(r.s, Bytes(r.results[1].line), "send"),
                    r.results[1]))

\* an iteration of _send_loop for an entry without a line number
SendLoopFresh(s, entry) ==
    With(IF ~entry.processed
         THEN ProcessCommandPhase(s, "sending", entry.command)
         ELSE [s |-> s, results |-> <<entry.command>>],
         LAMBDA r :
           IF r.results = << >> \/ r.results[1].line = ""
              \/ IsAtCommand(r.results[1])
           THEN \* nothing to write: dropped, empty, or an at-command
                ContinueSending(
                    IF r.results # << >> /\ r.results[1].line # ""
                    THEN ProcessCommandPhase(r.s, "sending", r.results[1]).s
                    ELSE r.s)
           ELSE SendLoopSent(
                    IF SendWithChecksum(r.s, r.results[1])
                    THEN DoIncrementAndSendWithChecksum(r.s, r.results[1].line)
                    ELSE DoSendWithoutChecksum(r.s, Bytes(r.results[1].line), "send"),
                    r.results[1]))

\* _send_queue.get() that hands out the entry put last
C17_Mutant(s) ==
    IF s.resend_q # << >>
    THEN [s EXCEPT !.resend_q = Tail(@), !.dequeued = Some(Head(s.resend_q)), !.pc = "deq"]
    ELSE [s EXCEPT !.send_q = SubSeq(@, 1, Len(@) - 1),
                   !.dequeued = Some(s.send_q[Len(s.send_q)]), !.pc = "deq"]

\* _send_queue.get(): the entry the thread takes, a resend entry first
SendQueueGet(s) ==
    IF s.resend_q # << >>
    THEN [s EXCEPT !.resend_q = Tail(@), !.dequeued = Some(Head(s.resend_q)), !.pc = "deq"]
    ELSE [s EXCEPT !.send_q = Tail(@), !.dequeued = Some(Head(s.send_q)), !.pc = "deq"]

\* an iteration of _send_loop from the entry it took to the write and the
\* "sent" phase; an iteration that writes nothing goes back to the dequeue
SendLoopEntry(s) ==
    LET entry == Val(s.dequeued)
        s1 == [s EXCEPT !.dequeued = None, !.pc = "get"]
    IN IF ~s1.send_queue_active THEN [s1 EXCEPT !.pc = "done"]
       ELSE IF ~IsNone(entry.linenumber)
       THEN LET linenumber == Val(entry.linenumber)
                s2 == DoSendWithChecksum(s1, entry.command.line, linenumber, "resend")
            IN SendLoopSent([s2 EXCEPT !.rs_done = @ \cup {linenumber}], entry.command)
       ELSE [SendLoopFresh(s1, entry) EXCEPT !.ret = "None"]

\* an iteration of _send_loop from the dequeue on, with no step of another
\* thread in between
SendLoopIteration(s) == SendLoopEntry(SendQueueGet(s))

\* _clear_to_send.wait() returns with a credit; the loop's condition is
\* tested next and the thread ends when the send queue is no longer active
SendLoopWait(s) ==
    [s EXCEPT !.clear_to_send = CountedEventWait(@),
              !.held = TRUE,
              !.pc = IF s.send_queue_active THEN "get" ELSE "done"]

\* _clear_to_send.wait(): the thread takes a credit
SL_Wait ==
    /\ pc = "wait"
    /\ ~CountedEventBlocked(clear_to_send)
    /\ Commit(SendLoopWait(S0))

\* _send_queue.get() and the iteration up to the write
SL_Get(max_inflight) ==
    /\ pc = "get"
    /\ SendQueueCanGet(S)
    /\ current_linenumber <= MaxLine
    /\ inflight < max_inflight
    /\ Commit(SendLoopIteration(S0))

\* _send_queue.get() alone: the thread holds the entry and has not looked at
\* it yet
SL_Dequeue ==
    /\ pc = "get"
    /\ SendQueueCanGet(S)
    /\ current_linenumber <= MaxLine
    /\ Commit(SendQueueGet(S0))

\* the iteration for the entry the thread holds
SL_Send(max_inflight) ==
    /\ pc = "deq"
    /\ inflight < max_inflight
    /\ Commit(SendLoopEntry(S0))

\* the rest of an iteration that goes on to the dequeue without a wait
C5_Mutant(s) ==
    LET s1 == IF s.cur.use_up_clear
              THEN [s EXCEPT !.clear_to_send = CountedEventClear(@)]
              ELSE [ContinueSending(s) EXCEPT !.ret = "None"]
    IN [s1 EXCEPT !.pc = "get", !.cur = NoCur]

\* the rest of the iteration: clear() or _continue_sending(), then the wait
SendLoopConsume(s) ==
    LET s1 == IF s.cur.use_up_clear
              THEN [s EXCEPT !.clear_to_send = CountedEventClear(@)]
              ELSE [ContinueSending(s) EXCEPT !.ret = "None"]
    IN [s1 EXCEPT !.pc = "wait", !.cur = NoCur]

SL_Consume ==
    /\ pc = "sent"
    /\ Commit(SendLoopConsume(S0))

\* ------------------------------------------------------ the specification

ResendNumbers == 0..MaxLine

Next ==
    \/ Connect
    \/ Process
    \/ PauseProcessing(MaxEvents)
    \/ ResumeProcessing
    \/ JobDone
    \/ CancelDone
    \/ \E in \in UserInputs : UserSend(in[1], in[2], MaxEvents)
    \/ PollTemperature(MaxEvents)
    \/ RecvOk
    \/ RecvWait(MaxEvents)
    \/ RecvStart
    \/ \E linenumber \in ResendNumbers : RecvResend(linenumber, MaxEvents)
    \/ RecvError("linenumber", MaxEvents)
    \/ RecvTimeout(MaxEvents)
    \/ SL_Wait
    \/ SL_Get(MaxInflight)
    \/ SL_Consume

Spec == Init /\ [][Next]_vars

\* ------------------------------------------------- reading the wire back

\* bit b of byte c, and the XOR of bytes as the parity of each of their bits
BitOf(c, b) == (c \div (2 ^ b)) % 2
RECURSIVE BitCount(_, _)
BitCount(data, b) ==
    IF data = << >> THEN 0 ELSE BitOf(Head(data), b) + BitCount(Tail(data), b)
RECURSIVE ParityBits(_, _)
ParityBits(data, b) ==
    IF b < 0 THEN 0
    ELSE (BitCount(data, b) % 2) * (2 ^ b) + ParityBits(data, b - 1)
XorOfBytes(data) == ParityBits(data, 7)

\* a written line that starts with "N" carries a line number and a checksum
Checksummed(e) == e.data[1] = 78
\* the number between "N" and the first blank
LineNumberOf(e) == DecimalValue(SubSeq(e.data, 2, IndexOf(e.data, 32) - 1))
\* the payload between the first blank and the "*"
PayloadOf(e) == SubSeq(e.data, IndexOf(e.data, 32) + 1, IndexOf(e.data, 42) - 1)
\* the payload is an M110
IsM110(e) == Len(PayloadOf(e)) >= 4 /\ SubSeq(PayloadOf(e), 1, 4) = <<77, 49, 49, 48>>

\* the step of the send loop that writes a line
Writes == pc \in {"get", "deq"} /\ pc' = "sent"
\* the line it wrote
Written == wire'[Len(wire')]
\* the line written last
LastWritten == wire[Len(wire)]

\* ---------------------------------------------------------------------- C1

\* C1: a non-resend checksummed line that is not an M110 carries the number
\* of the previous non-resend checksummed line plus one when no M110 reset
\* the numbering in between, and 1 when it is the first of a fresh engine.
C1_LineNumbersConsecutive ==
    [][(Writes /\ Written.via = "send" /\ Checksummed(Written) /\ ~IsM110(Written))
       => LineNumberOf(Written) = IF IsNone(last_n) THEN 1 ELSE Val(last_n) + 1]_vars

\* a line was re-sent from the history and the fresh line written after it
\* carries the next number
C1_Witness ==
    /\ pc = "sent"
    /\ rs_done # {}
    /\ LastWritten.via = "send" /\ Checksummed(LastWritten) /\ ~IsM110(LastWritten)
    /\ LineNumberOf(LastWritten) = 2

\* ---------------------------------------------------------------------- C2

\* a checksummed line is well formed: "N<digits> <payload>*<digits>" and one
\* LF, the last byte; the digits after the "*" are the decimal form of the
\* XOR of the bytes before it
WellFormedChecksum(data) ==
    LET star == IndexOf(data, 42)
        before == SubSeq(data, 1, star - 1)
        after == SubSeq(data, star + 1, Len(data) - 1)
    IN /\ star > 1
       /\ data[Len(data)] = 10
       /\ \A i \in 1..(Len(data) - 1) : data[i] # 10
       /\ AllDigits(after)
       /\ (Len(after) = 1 \/ after[1] # 48)
       /\ DecimalValue(after) = XorOfBytes(before)

\* C2: every checksummed line the send loop writes, first transmission or
\* resend, ends with the decimal XOR of the bytes before its "*" and a
\* single LF.
C2_ChecksumCorrect ==
    [][(Writes /\ Checksummed(Written)) => WellFormedChecksum(Written.data)]_vars

\* "N1 G28*18" and LF has been written as a resend
C2_Witness ==
    /\ pc = "sent"
    /\ LastWritten.via = "resend"
    /\ LastWritten.data = <<78, 49, 32, 71, 50, 56, 42, 49, 56, 10>>

\* ---------------------------------------------------------------------- C3

\* C3: a line re-sent from the history carries a number of the window the
\* last accepted resend request opened (from the requested line up to the
\* line before the counter), its payload is the history's entry for that
\* number, and the write leaves the line counter and the history alone.
C3_ResendFidelity ==
    [][(Writes /\ Written.via = "resend")
       => /\ LineNumberOf(Written) \in rs_from..(rs_to - 1)
          /\ LineNumberOf(Written) \in DOMAIN last_lines
          /\ PayloadOf(Written) = Bytes(last_lines[LineNumberOf(Written)])
          /\ current_linenumber' = current_linenumber
          /\ last_lines' = last_lines]_vars

\* a resend request for a line of the history, received while no earlier
\* request is outstanding and no re-sent line waits to be written
RecvResendInHistory(linenumber, max_events) ==
    /\ IsNone(resend_requested)
    /\ resend_q = << >>
    /\ linenumber \in DOMAIN last_lines
    /\ RecvResend(linenumber, max_events)

\* the runs in which the firmware asks for lines it was sent, one request at
\* a time
NextResend ==
    \/ Connect
    \/ Process
    \/ JobDone
    \/ RecvOk
    \/ RecvStart
    \/ \E linenumber \in ResendNumbers : RecvResendInHistory(linenumber, MaxResendEvents)
    \/ RecvTimeout(MaxResendEvents)
    \/ SL_Wait
    \/ SL_Get(MaxInflight)
    \/ SL_Consume

SpecResend == Init /\ [][NextResend]_vars

\* ---------------------------------------------------------------------- C7

\* the lines of the resend window last opened
ResendWindow == rs_from..(rs_to - 1)

\* C7: when the send loop writes a non-resend line no resend is active, no
\* resend entry waits, and every line of the resend window last opened has
\* been written again.
C7_ResendPreemption ==
    [][(Writes /\ Written.via = "send")
       => /\ ~resend_active
          /\ resend_q = << >>
          /\ (rs_from \in DOMAIN last_lines => ResendWindow \subseteq rs_done)]_vars

\* the last line of a resend window has just been written while an ordinary
\* entry was waiting in the send queue
C7_Witness ==
    /\ pc = "sent"
    /\ LastWritten.via = "resend"
    /\ send_q # << >>
    /\ ResendWindow # {} /\ ResendWindow = rs_done

\* --------------------------------------------------------------------- C10

\* _on_comm_resend dismisses the request before it looks at the history
Dismissed(linenumber) ==
    \/ IsNone(resend_requested) /\ linenumber = current_linenumber
    \/ /\ last_communication_error = "linenumber"
       /\ Some(linenumber) = resend_requested
       /\ Val(resend_count) < current_linenumber - linenumber - 1

\* what the claim asks of a resend request for a line that is not in history
UnknownLineHandled ==
    /\ error_logged'
    /\ IsBusy(S) => (state' = "CANCELLING" /\ cancel_error' /\ ~job'.active)
    /\ ~IsBusy(S) => /\ state' = state
                     /\ resend_requested' = resend_requested
                     /\ resend_linenumber' = resend_linenumber
                     /\ resend_active' = resend_active
                     /\ resend_q' = resend_q

\* C10 as stated: every resend request for a line that is not in history is
\* logged as an error, cancels a busy engine and leaves an idle one alone.
C10_UnknownLineAlways ==
    [][\A n \in ResendNumbers :
        (n \notin DOMAIN last_lines /\ RecvResend(n, MaxEvents))
        => UnknownLineHandled]_vars

\* C10, amended: a resend request for a line that is not in history, unless
\* it is dismissed as a request for the line to be sent next or as a stale
\* repeat after a line number error, is logged as an error, cancels a busy
\* engine with error, and leaves an idle engine's state alone.
C10_UnknownLine ==
    [][\A n \in ResendNumbers :
        (n \notin DOMAIN last_lines /\ ~Dismissed(n) /\ RecvResend(n, MaxEvents))
        => UnknownLineHandled]_vars

\* a busy engine was asked for a line it does not have: error logged, job
\* cancelled with error
C10_Witness ==
    /\ error_logged
    /\ state = "CANCELLING"
    /\ cancel_error
    /\ ~IsNone(resend_requested) /\ Val(resend_requested) \notin DOMAIN last_lines

\* ---------------------------------------------------------------------- C4

\* the runs of a firmware that stops answering: nothing but timeouts arrives
NextSilent ==
    \/ Connect
    \/ RecvTimeout(MaxSilentEvents)
    \/ SL_Wait
    \/ SL_Get(MaxSilentInflight)
    \/ SL_Consume

SpecSilent == Init /\ [][NextSilent]_vars

\* C4: never more than 10 ack-requiring lines are written and not yet
\* answered by an ok.
C4_InflightBounded == inflight <= CreditMax

\* ---------------------------------------------------------------------- C5

Consumes == pc = "sent" /\ pc' = "wait"

\* C6: the count stays within 0..10, and the step that follows the write of
\* a line the firmware acknowledges takes one from it (none at zero).
C6_CreditAccounting ==
    [][/\ clear_to_send' \in 0..CreditMax
       /\ (Consumes /\ RequiresAck(S, cur.line))
          => clear_to_send' = CountedEventClear(clear_to_send)]_vars

\* ---------------------------------------------------------------------- C8

\* the queue send_commands puts a command into
TargetQueue == IF state = "PROCESSING" THEN command_queue ELSE send_q

\* the runs in which the user and the poller send commands to an engine
\* whose firmware answers
NextDedup ==
    \/ Connect
    \/ Process
    \/ \E in \in UserInputs : UserSend(in[1], in[2], MaxDedupEvents)
    \/ PollTemperature(MaxDedupEvents)
    \/ RecvOk
    \/ RecvStart
    \/ SL_Wait
    \/ SL_Get(MaxInflight)
    \/ SL_Consume

SpecDedup == Init /\ [][NextDedup]_vars

\* C8: send_commands for a type that waits in the queue returns false and
\* leaves the queues as they are.
C8_DedupReportsFalse ==
    [][\A in \in UserInputs :
        (IsOperational(S) /\ TypeInQueue(TargetQueue, in[2])
         /\ UserSend(in[1], in[2], MaxDedupEvents))
        => (ret' = "False" /\ send_q' = send_q /\ command_queue' = command_queue)]_vars

\* ---------------------------------------------------------------------- C9

\* the runs that climb the timeout ladder: the user sends a heat-up command
\* and the firmware falls silent
NextLadder ==
    \/ Connect
    \/ Process
    \/ RecvOk
    \/ RecvStart
    \/ (nevents = 0 /\ UserSend("M109 S200", "None", MaxLadderEvents))
    \/ RecvTimeout(MaxLadderEvents)
    \/ SL_Wait
    \/ SL_Get(MaxInflight)
    \/ SL_Consume

SpecLadder == Init /\ [][NextLadder]_vars

\* C9: once the consecutive timeouts exceed the applicable maximum the
\* engine is in DISCONNECTED_WITH_ERROR.
C9_TimeoutLadder ==
    timeout_consecutive > ConsecutiveMax(S) => state = "DISCONNECTED_WITH_ERROR"

\* --------------------------------------------------------------------- C11

\* what the user sends in the runs that reset the line numbering
ResetInputs == {<<"M110 N2", "None">>, <<"M110", "None">>, <<"G28", "None">>}

\* the runs in which the user resets the line numbering of an engine whose
\* firmware answers
NextReset ==
    \/ Connect
    \/ Process
    \/ \E in \in ResetInputs : UserSend(in[1], in[2], MaxResetEvents)
    \/ RecvOk
    \/ RecvStart
    \/ SL_Wait
    \/ SL_Get(MaxInflight)
    \/ SL_Consume

SpecReset == Init /\ [][NextReset]_vars

\* the N parameter a written M110 carries in its payload, 0 when it has none
PayloadK(e) ==
    LET payload == PayloadOf(e)
        i == IndexOf(payload, 78)
    IN IF i = 0 THEN 0 ELSE DecimalValue(SubSeq(payload, i + 1, Len(payload)))

\* C11: once an M110 N<k> has passed through the send loop, the first
\* non-resend checksummed line written carries N = k (the M110 itself when
\* it is written with a checksum, k being the N parameter on the wire, 0
\* when there is none) and the second carries k + 1.
C11_LineResetNumbers ==
    [][(Writes /\ Written.via = "send" /\ Checksummed(Written)
        /\ ~IsNone(reset_k') /\ since_reset' \in 1..2)
       => /\ LineNumberOf(Written) = Val(reset_k') + since_reset' - 1
          /\ IsM110(Written) => Val(reset_k') = PayloadK(Written)]_vars

\* "M110 N2" went through the send loop and the line written after it
\* carries N3
C11_Witness ==
    /\ pc = "sent"
    /\ reset_k = Some(2)
    /\ since_reset = 2
    /\ LastWritten.via = "send" /\ Checksummed(LastWritten) /\ ~IsM110(LastWritten)
    /\ LineNumberOf(LastWritten) = 3

\* an M110 without an N parameter was written with line number 0
C11_WitnessNoParameter ==
    /\ pc = "sent"
    /\ LastWritten.via = "send" /\ Checksummed(LastWritten)
    /\ PayloadOf(LastWritten) = <<77, 49, 49, 48>>
    /\ LineNumberOf(LastWritten) = 0

\* --------------------------------------------------------------------- C12

\* the runs in which the receiving thread may handle a resend request
\* between the sending thread's get() and the rest of its iteration
NextRace ==
    \/ Connect
    \/ Process
    \/ JobDone
    \/ RecvOk
    \/ RecvStart
    \/ \E linenumber \in ResendNumbers : RecvResendInHistory(linenumber, MaxRaceEvents)
    \/ SL_Wait
    \/ SL_Dequeue
    \/ SL_Send(MaxInflight)
    \/ SL_Consume

SpecRace == Init /\ [][NextRace]_vars

\* the step in which an M110 goes through the sending phase and is written
M110Passes ==
    Writes /\ Written.via = "send" /\ Checksummed(Written) /\ IsM110(Written)

\* C12: the step in which an M110 passes the sending phase leaves no line
\* sent before it in the history, no resend requested, no resend cursor and
\* the send queue's resend_active flag false; and no other step decreases
\* the line counter.
C12_ResetClearsResend ==
    [][/\ M110Passes => /\ DOMAIN last_lines' \subseteq {LineNumberOf(Written)}
                        /\ IsNone(resend_requested')
                        /\ IsNone(resend_linenumber')
                        /\ ~resend_active'
       /\ current_linenumber' < current_linenumber => M110Passes]_vars

\* the part of C12 that the code keeps: only an M110 decreases the counter,
\* and it empties the history and drops the cursor
C12_ResetClearsHistory ==
    [][/\ M110Passes => /\ DOMAIN last_lines' \subseteq {LineNumberOf(Written)}
                        /\ IsNone(resend_linenumber')
       /\ current_linenumber' < current_linenumber => M110Passes]_vars

\* --------------------------------------------------------------------- C13

\* a job whose second line is the pause command M0
PauseJobLines == <<"G28", "M0">>

ProcessPauseJob ==
    /\ state = "CONNECTED"
    /\ njobs < MaxJobs
    /\ Commit(process(S0, "file", FALSE, PauseJobLines))

\* the runs in which M0 is submitted, by the job or by the user
NextPause ==
    \/ Connect
    \/ ProcessPauseJob
    \/ JobDone
    \/ UserSend("M0", "None", MaxPauseEvents)
    \/ RecvOk
    \/ RecvStart
    \/ SL_Wait
    \/ SL_Get(MaxInflight)
    \/ SL_Consume

SpecPause == Init /\ [][NextPause]_vars

\* the command a written line carries, with or without number and checksum
CommandOf(e) ==
    IF Checksummed(e) THEN PayloadOf(e) ELSE SubSeq(e.data, 1, Len(e.data) - 1)

\* C13: an M0 submitted for sending with events enabled is neither in the
\* send queue nor on the wire, and a job that submitted it is paused.
C13_PauseNotSent ==
    /\ \A i \in 1..Len(send_q) : send_q[i].command.code # "M0"
    /\ \A i \in 1..Len(wire) : CommandOf(wire[i]) # Bytes("M0")
    /\ (job.kind = "file" /\ job.active /\ Len(job.lines) < Len(PauseJobLines) - 1)
       => state # "PROCESSING"

\* --------------------------------------------------------------------- C14

\* the runs in which the user sends the emergency stop
NextEmergency ==
    \/ Connect
    \/ UserSend("M112", "None", MaxEmergencyEvents)
    \/ RecvOk
    \/ RecvStart
    \/ SL_Wait
    \/ SL_Get(MaxInflight)
    \/ SL_Consume

SpecEmergency == Init /\ [][NextEmergency]_vars

\* C14: the call that submits M112 to an operational engine that is not
\* processing writes the emergency stop at once - the line written last
\* carries the line number the counter had plus one and the counter has
\* moved by one - the send queue is left as it was, and the engine is
\* disconnected.
C14_EmergencyStop ==
    [][(IsOperational(S) /\ state # "PROCESSING"
        /\ UserSend("M112", "None", MaxEmergencyEvents))
       => /\ wire' # << >>
          /\ Checksummed(wire'[Len(wire')])
          /\ PayloadOf(wire'[Len(wire')]) = Bytes("M112")
          /\ LineNumberOf(wire'[Len(wire')]) = current_linenumber + 1
          /\ current_linenumber' = current_linenumber + 1
          /\ send_q' = send_q
          /\ ~IsOperational(S)']_vars

\* --------------------------------------------------------------------- C15

\* the iteration of a thread that finds the send queue inactive after its
\* get(): it leaves the loop
SL_Break ==
    /\ pc = "get"
    /\ ~send_queue_active
    /\ SendQueueCanGet(S)
    /\ Commit(SendLoopIteration(S0))

\* the runs that end with a disconnect
NextTeardown ==
    \/ Connect
    \/ RecvOk
    \/ RecvStart
    \/ Disconnect(MaxTeardownEvents)
    \/ SL_Wait
    \/ (send_queue_active /\ SL_Get(MaxInflight))
    \/ SL_Break
    \/ SL_Consume

SpecTeardown == Init /\ [][NextTeardown]_vars

\* the sending thread is not blocked: wait() can return, get() can return,
\* or the thread stands between two calls
SenderCanStep ==
    \/ pc = "wait" /\ ~CountedEventBlocked(clear_to_send)
    \/ pc = "get" /\ SendQueueCanGet(S)
    \/ pc = "sent"

\* C15: after disconnect() the sending thread has ended or can go on to its
\* end: it is never left blocked in wait() or get() on a disconnected
\* engine, to which no line, timeout or command gives a credit or an entry.
C15_SenderTerminates ==
    (~send_queue_active /\ ~IsOperational(S) /\ pc \notin {"idle", "done"})
    => SenderCanStep

\* --------------------------------------------------------------------- C16

\* the two sending threads change places: what is written for the thread of
\* the last connect() is then done by the thread of the earlier one
SwapThread(s) ==
    [s EXCEPT !.pc = s.orphan.pc, !.cur = s.orphan.cur, !.held = s.orphan.held,
              !.orphan = [pc |-> s.pc, cur |-> s.cur, held |-> s.held]]

\* the steps of _send_loop taken by the thread of the earlier connect()
OrphanWait ==
    /\ orphan.pc = "wait"
    /\ ~CountedEventBlocked(clear_to_send)
    /\ Commit(SwapThread(SendLoopWait(SwapThread(S0))))

OrphanGet(max_inflight) ==
    /\ orphan.pc = "get"
    /\ SendQueueCanGet(S)
    /\ current_linenumber <= MaxLine
    /\ inflight < max_inflight
    /\ Commit(SwapThread(SendLoopIteration(SwapThread(S0))))

OrphanConsume ==
    /\ orphan.pc = "sent"
    /\ Commit(SwapThread(SendLoopConsume(SwapThread(S0))))

\* the runs with connect(), disconnect() and connect() again
NextReconnect ==
    \/ Connect
    \/ Disconnect(MaxReconnectEvents)
    \/ Reconnect
    \/ RecvOk
    \/ RecvStart
    \/ SL_Wait
    \/ (send_queue_active /\ SL_Get(MaxInflight))
    \/ SL_Break
    \/ SL_Consume
    \/ OrphanWait
    \/ OrphanGet(MaxInflight)
    \/ OrphanConsume

SpecReconnect == Init /\ [][NextReconnect]_vars

\* the positions of a sending thread that has started and not ended
Running == {"wait", "get", "deq", "sent"}

\* C16: never two sending threads that have both started and not ended.
C16_OneSender == ~(pc \in Running /\ orphan.pc \in Running)

\* --------------------------------------------------------------------- C17

\* q2 is q1 with k entries taken from its front and entries put at its end
KeepsOrder(q1, q2, k) ==
    LET rest == SubSeq(q1, k + 1, Len(q1))
    IN Len(q2) >= Len(rest) /\ SubSeq(q2, 1, Len(rest)) = rest

NextIgnore ==
    \/ Connect
    \/ Process
    \/ RecvIgnoreOk(MaxIgnoreEvents)
    \/ (nevents = 0 /\ UserSend("M109 S200", "None", MaxIgnoreEvents))
    \/ RecvOk
    \/ RecvStart
    \/ SL_Wait
    \/ SL_Get(MaxInflight)
    \/ SL_Consume

SpecIgnore == Init /\ [][NextIgnore]_vars

\* an ok arrives while oks are to be ignored
IgnoredOk == ignore_ok > 0 /\ RecvOk

\* what an ignored ok leaves alone whatever the state
IgnoredOkFrame ==
    /\ ignore_ok' = ignore_ok - 1
    /\ state' = state
    /\ long_running_command' = long_running_command
    /\ heating' = heating
    /\ poller' = poller
    /\ job' = job
    /\ command_queue' = command_queue
    /\ resend_q' = resend_q
    /\ current_linenumber' = current_linenumber
    /\ timeout_consecutive' = timeout_consecutive
    /\ wire' = wire

HelloAgain == state = "CONNECTING" /\ flavor.hello # "None"

HelloCount == IF HelloAgain THEN 1 ELSE 0

RECURSIVE SetTimes(_, _)
SetTimes(c, n) == IF n = 0 THEN c ELSE SetTimes(CountedEventSet(c), n - 1)

\* the entry into CONNECTED from CONNECTING: the poller runs, one
\* command_set_line(0) is enqueued behind what the line itself enqueued, and
\* set() is called once
EntersConnected ==
    /\ state' = "CONNECTED"
    /\ poller'
    /\ Len(send_q') = Len(send_q) + HelloCount + 1
    /\ SubSeq(send_q', 1, Len(send_q)) = send_q
    /\ HelloAgain => send_q'[Len(send_q) + 1].command.line = flavor.hello
    /\ send_q'[Len(send_q')].command.line = command_set_line0
    /\ send_q'[Len(send_q')].linenumber = None
    /\ clear_to_send' = SetTimes(clear_to_send, HelloCount + 1)

\* C19 as stated: in CONNECTING every ok and every start moves the engine
\* to CONNECTED, and the entry enqueues one command_set_line(0), grants one
\* credit and starts the poller.
C19_HandshakeCompletes ==
    [][(state = "CONNECTING" /\ (RecvOk \/ RecvStart)) => EntersConnected]_vars

\* C19, amended: in CONNECTING a start, and an ok that is not counted off
\* ignore_ok, move the engine to CONNECTED; the entry enqueues one
\* command_set_line(0), calls set() once and starts the poller, on top of
\* the hello and the credit the line received adds in CONNECTING; an ok
\* counted off ignore_ok leaves the engine in CONNECTING; and CONNECTED is
\* entered from CONNECTING in no other way.
C19_HandshakeCompletesUnlessIgnored ==
    [][/\ (state = "CONNECTING" /\ ((ignore_ok = 0 /\ RecvOk) \/ RecvStart))
          => EntersConnected
       /\ (state = "CONNECTING" /\ ignore_ok > 0 /\ RecvOk) => state' = "CONNECTING"
       /\ (state = "CONNECTING" /\ state' = "CONNECTED") => EntersConnected]_vars

\* the handshake has just completed on the ok for the hello: the second
\* hello and the command_set_line(0) wait in the queue, the poller runs
C19_Witness ==
    /\ state = "CONNECTED"
    /\ poller
    /\ Len(wire) = 1
    /\ inflight = 0
    /\ Len(send_q) = 2
    /\ send_q[2].command.line = command_set_line0
    /\ clear_to_send = 2

\* --------------------------------------------------------------------- C20

\* the names a firmware reports (the empty name is no name) and the data
\* that comes with them
FirmwareNames == {"", "acking", "acking-terse", "other"}
FirmwareData == {"1.0", "2.0"}

\* the runs in which the firmware reports its name
NextFirmware ==
    \/ Connect
    \/ \E n \in FirmwareNames, d \in FirmwareData :
          RecvFirmwareInfo(n, d, MaxFirmwareEvents)
    \/ RecvOk
    \/ RecvStart
    \/ SL_Wait
    \/ SL_Get(MaxInflight)
    \/ SL_Consume

SpecFirmware == Init /\ [][NextFirmware]_vars

\* what the firmware-info message decides
Identification(s) ==
    <<s.flavor, s.registered_messages, s.error_messages,
      s.firmware_identified, s.firmware_name, s.firmware_info>>

\* C20: handling a firmware-info message a second time leaves flavor,
\* registered message names, error names, firmware_identified, name and
\* info as handling it once left them, and the two lists of names are
\* always those derived from the installed flavor.
C20_FlavorSwitchIdempotent ==
    /\ \A n \in FirmwareNames, d \in FirmwareData :
          LET once == OnMessageFirmwareInfo(S, n, d)
          IN Identification(OnMessageFirmwareInfo(once, n, d)) = Identification(once)
    /\ registered_messages = RegisteredMessagesOf(flavor)
    /\ error_messages = ErrorMessagesOf(flavor)

\* a message claimed by two flavors has installed the one enumerated last
\* on an engine constructed with another, and a second message was handled
C20_Witness ==
    /\ flavor = TerseFlavor
    /\ firmware_identified
    /\ firmware_name = "acking-terse"
    /\ error_messages = << >>
    /\ nevents = 2

C20_WitnessNoFlavorClaims ==
    /\ flavor = GenericFlavor
    /\ firmware_identified
    /\ firmware_name = "other"
    /\ nevents = 2

\* --------------------------------------------------------------------- C21

\* the entries of a queue that carry a line (the teardown's sentinels do not)
LinesQueued(q) == SelectSeq(q, LAMBDA e : e.command.line # "")

\* C21: every connect() starts from initialized state - the history and the
\* command queue are empty, no resend is outstanding, and the send queue
\* holds nothing but the hello of this connect().
C21_ConnectStartsFresh ==
    [][(Connect \/ Reconnect)
       => /\ last_lines' = LineHistoryEmpty
          /\ command_queue' = << >>
          /\ resend_q' = << >>
          /\ resend_requested' = None
          /\ ~resend_active'
          /\ Len(LinesQueued(send_q')) = (IF flavor.hello # "None" THEN 1 ELSE 0)]_vars

\* --------------------------------------------------------------------- C22

\* the classes of job and their runs_parallel: a stream job, a file job, a
\* job that admits commands in parallel, a job printed from the SD card
JobClasses ==
    {<<"stream", FALSE>>, <<"file", FALSE>>, <<"file", TRUE>>, <<"sd", TRUE>>}

ProcessJob(kind, parallel) ==
    /\ state = "CONNECTED"
    /\ njobs < MaxJobs
    /\ Commit(process(S0, kind, parallel, JobLines))

\* the user's command and the poller's tick while a job is processed
UserSendsM105 == UserSend("M105", "None", MaxStreamEvents)
PollerTicks == PollTemperature(MaxStreamEvents)

\* the runs with a job of each class, the user and the poller
NextStream ==
    \/ Connect
    \/ \E jc \in JobClasses : ProcessJob(jc[1], jc[2])
    \/ JobDone
    \/ UserSendsM105
    \/ PollerTicks
    \/ RecvOk
    \/ RecvStart
    \/ SL_Wait
    \/ SL_Get(MaxInflight)
    \/ SL_Consume

SpecStream == Init /\ [][NextStream]_vars

StreamingNow == state = "PROCESSING" /\ job.kind = "stream"
OtherJobNow == state = "PROCESSING" /\ job.kind # "stream"

\* the commands of the first n entries of the command queue are in queue q
HandedOn(n, q) ==
    \A i \in 1..n : \E j \in 1..Len(q) : q[j].command = command_queue[i].command

\* while a stream job is processed neither the user nor the poller puts
\* anything into the send queue, and the command queue is not drained
StreamSuppresses ==
    StreamingNow
    => /\ (UserSendsM105 \/ PollerTicks) => (send_q' = send_q /\ wire' = wire)
       /\ Len(command_queue') >= Len(command_queue)

\* while another job is processed the user's command reaches the send
\* queue, at once when the job runs in parallel and from the command queue
\* when it does not, and so does the poll of an engine that can send
OthersAdmit ==
    OtherJobNow
    => /\ (UserSendsM105 /\ job.parallel)
          => send_q' = Append(send_q, [command |-> to_command("M105", "None"),
                                       linenumber |-> None, processed |-> FALSE])
       /\ (UserSendsM105 /\ ~job.parallel)
          => Len(command_queue') = Len(command_queue) + 1
       /\ (PollerTicks /\ CanSend(S) /\ ~TypeInQueue(send_q, "temperature_poll"))
          => Len(send_q') = Len(send_q) + 1
       /\ Len(command_queue') < Len(command_queue)
          => HandedOn(Len(command_queue) - Len(command_queue'), send_q')

\* C22: while a stream job is processed no command of the user, of the
\* command queue or of the poller reaches the send queue; while a job of
\* another class is processed they do.
C22_StreamJobOnly == [][StreamSuppresses /\ OthersAdmit]_vars

\* the half of C22 about the stream job alone
C22_StreamSuppressesExternal == [][StreamSuppresses]_vars

\* --------------------------------------------------------------------- C23

\* a job whose first line is an at-command
AtJobLines == <<"@pause", "G28">>

ProcessAtJob ==
    /\ state = "CONNECTED"
    /\ njobs < MaxJobs
    /\ Commit(process(S0, "file", FALSE, AtJobLines))

\* the runs with at-commands from the user and from the job
NextAt ==
    \/ Connect
    \/ ProcessAtJob
    \/ ResumeProcessing
    \/ JobDone
    \/ UserSend("@pause", "None", MaxAtEvents)
    \/ RecvOk
    \/ RecvStart
    \/ SL_Wait
    \/ SL_Get(MaxInflight)
    \/ SL_Consume

SpecAt == Init /\ [][NextAt]_vars

\* the line on the wire is an at-command, with or without number and checksum
IsAtLine(e) ==
    \/ e.data[1] = 64
    \/ (e.data[1] = 78 /\ IndexOf(e.data, 42) > 0 /\ PayloadOf(e)[1] = 64)

\* the sending thread takes an at-command from the send queue
TakesAtCommand ==
    /\ resend_q = << >>
    /\ send_q # << >>
    /\ IsAtCommand(Head(send_q).command)
    /\ SL_Get(MaxInflight)

\* C23: no at-command is written to the transport; the iteration of the
\* send loop that takes an at-command from the send queue writes nothing,
\* keeps the credit it holds, leaves the count alone and goes on to the
\* next entry.
C23_AtCommandNotWritten ==
    [][/\ wire' # wire => ~IsAtLine(Written)
       /\ TakesAtCommand
          => /\ wire' = wire
             /\ clear_to_send' = clear_to_send
             /\ held /\ held'
             /\ inflight' = inflight
             /\ pc' = "get"]_vars

\* the job's @pause has paused the job and has left the send queue with
\* nothing written for it; the thread still holds its credit
C23_Witness ==
    /\ state = "PAUSED"
    /\ job.lines = <<"G28">>
    /\ send_q = << >>
    /\ pc = "get"
    /\ held
    /\ wire # << >>
    /\ ~IsAtLine(LastWritten)


\* --------------------------------------------------------------------- C24

RECURSIVE SumLen(_, _)
SumLen(f, D) ==
    IF D = {} THEN 0
    ELSE LET d == CHOOSE x \in D : TRUE IN Len(f[d]) + SumLen(f, D \ {d})

\* a plugin registers a hook for a phase before the engine connects:
\* _gcode_hooks[phase][name] = hook
RegisterHook(phase, behaviour) ==
    /\ state = "DISCONNECTED"
    /\ pc = "idle"
    /\ SumLen(gcode_hooks, HookPhases) < MaxHooks
    /\ Commit([S0 EXCEPT !.gcode_hooks[phase] = Append(@, behaviour)])

\* the runs with plugin hooks and commands of the user
NextHook ==
    \/ \E phase \in HookPhases, behaviour \in HookBehaviours :
          RegisterHook(phase, behaviour)
    \/ Connect
    \/ UserSend("G28", "None", MaxHookEvents)
    \/ RecvOk
    \/ RecvStart
    \/ SL_Wait
    \/ SL_Get(MaxInflight)
    \/ SL_Consume

SpecHook == Init /\ [][NextHook]_vars

\* a hook that raises is registered for some phase
SomeHookRaises ==
    \E phase \in HookPhases :
        \E i \in 1..Len(gcode_hooks[phase]) : gcode_hooks[phase][i] = "raises"

\* what the iteration of the send loop leaves when no hook is registered
HookFreeIteration ==
    [SendLoopIteration([S0 EXCEPT !.gcode_hooks = NoHooks])
        EXCEPT !.gcode_hooks = gcode_hooks]

\* C24: a hook that raises while a command is processed is passed through:
\* the iteration of the send loop leaves what it leaves without the hook,
\* the command is written and is not dropped.
C24_RaisingHookPassesThrough ==
    [][SL_Get(MaxInflight) /\ SomeHookRaises => Commit(HookFreeIteration)]_vars

\* the hooks that only pass the command on leave the iteration as it is
\* without them
C24_PassingHookPassesThrough ==
    [][SL_Get(MaxInflight) /\ ~SomeHookRaises => Commit(HookFreeIteration)]_vars


\* --------------------------------------------------------------------- C25

\* the resend state and the flag of the send queue
ResendState == <<resend_requested, resend_linenumber, resend_count, resend_active>>

\* the resend window for line n is open and nothing of it was re-sent yet
WindowOpenedAt(n) ==
    /\ resend_requested = Some(n)
    /\ resend_linenumber = Some(n)
    /\ resend_count = Some(0)
    /\ resend_active

\* C25: a resend request for a line that is not in history leaves the resend
\* state and the flag of the send queue unchanged, whether or not the engine
\* is busy; a window is opened only for a line that is in history.
C25_WindowOnlyForKnownLine ==
    [][\A n \in ResendNumbers :
        (n \notin DOMAIN last_lines /\ RecvResend(n, MaxEvents))
        => UNCHANGED ResendState]_vars

\* the same for an engine that is not busy
C25_IdleKeepsResendState ==
    [][\A n \in ResendNumbers :
        (n \notin DOMAIN last_lines /\ ~IsBusy(S) /\ RecvResend(n, MaxEvents))
        => UNCHANGED ResendState]_vars

\* a request for a line that is in history, unless it is dismissed, opens
\* the window at that line
C25_KnownLineOpensWindow ==
    [][\A n \in ResendNumbers :
        (n \in DOMAIN last_lines /\ ~Dismissed(n) /\ RecvResend(n, MaxEvents))
        => WindowOpenedAt(n)']_vars


\* --------------------------------------------------------------------- C26

\* a read timeout below the consecutive maximum is handled while a resend
\* is outstanding
TimeoutInResend ==
    /\ ~IsNone(resend_requested)
    /\ state \in {"PROCESSING", "PAUSED", "CONNECTED"}
    /\ timeout_consecutive + 1 <= ConsecutiveMax(S)
    /\ RecvTimeout(MaxResendEvents)

\* the line of the resend window that was emitted last
LastEmitted ==
    IF IsNone(resend_linenumber) THEN current_linenumber - 1
    ELSE Val(resend_linenumber) - 1

\* line n of the history has been put into the send queue as a resend and
\* the cursor stands at the line after it, or the window is closed when that
\* line is the one to be sent next
Reemitted(n) ==
    /\ n \in DOMAIN last_lines
    /\ resend_q' = Append(resend_q, [command |-> Command(last_lines[n]),
                                     linenumber |-> Some(n),
                                     processed |-> TRUE])
    /\ IF n + 1 = current_linenumber
       THEN resend_linenumber' = None /\ resend_requested' = None
       ELSE resend_linenumber' = Some(n + 1)

\* C26: a timeout while a resend is outstanding re-emits the resend line
\* emitted last, which is a line of the history that is not below the line
\* requested, and leaves the cursor at the line after it.
C26_TimeoutReemitsLast ==
    [][TimeoutInResend
       => (LastEmitted >= Val(resend_requested) /\ Reemitted(LastEmitted))]_vars

\* the same once a line of the window has been emitted
C26_TimeoutAfterEmission ==
    [][(TimeoutInResend /\ LastEmitted >= Val(resend_requested))
       => Reemitted(LastEmitted)]_vars


\* a timeout has put line 0 into the send queue again after it was emitted
\* for the window opened at 0, and the cursor stands at line 1
C26_Reemission ==
    /\ rs_timeout
    /\ resend_requested = Some(0)
    /\ resend_linenumber = Some(1)
    /\ resend_q # << >>
    /\ resend_q[Len(resend_q)].linenumber = Some(0)


\* --------------------------------------------------------------------- C27

\* a read timeout that stays within the consecutive maximum is handled
TimeoutBelowMax ==
    /\ state \in {"PROCESSING", "PAUSED", "CONNECTED"}
    /\ timeout_consecutive + 1 <= ConsecutiveMax(S)
    /\ RecvTimeout(MaxLadderEvents)

\* the M105 the timeout handler sends to tickle the printer
TickleEntry ==
    [command |-> to_command("M105", "temperature"),
     linenumber |-> None, processed |-> FALSE]

\* what a rung of the ladder does
RungHeating ==
    /\ ~heating'
    /\ UNCHANGED <<state, send_q, resend_q, clear_to_send>>
RungNothing ==
    UNCHANGED <<state, heating, send_q, resend_q, clear_to_send>>
RungTickle ==
    /\ send_q' = Append(send_q, TickleEntry)
    /\ UNCHANGED <<state, heating, resend_q>>
RungCredit ==
    /\ clear_to_send' = 1
    /\ UNCHANGED <<state, heating, send_q, resend_q>>

\* the ladder of _on_comm_timeout; tickled tells whether the printing rung
\* is taken
Ladder(tickled) ==
    IF ~IsNone(resend_requested) THEN resend_q' # resend_q
    ELSE IF heating THEN RungHeating
    ELSE IF long_running_command THEN RungNothing
    ELSE IF state \in {"PROCESSING", "PAUSED"}
    THEN (IF tickled THEN RungTickle ELSE RungNothing)
    ELSE IF CountedEventBlocked(clear_to_send) THEN RungCredit
    ELSE RungNothing

\* C27: a timeout within the consecutive maximum takes the one recovery
\* action of the first rung that applies: the resend line is re-emitted;
\* else the heatup is finished and the state kept; else a long running
\* command is waited for; else one M105 of type temperature is enqueued
\* while printing; else an idle engine without credit gets one credit; an
\* idle engine with credit is left alone.
C27_TimeoutRecovery ==
    [][TimeoutBelowMax => Ladder(TRUE)]_vars

\* the same with the printing rung taken unless a command of the type
\* temperature waits in the send queue already
C27_TimeoutRecoveryUnlessQueued ==
    [][TimeoutBelowMax => Ladder(~TypeInQueue(send_q, "temperature"))]_vars


\* --------------------------------------------------------------------- C28

\* an entry leaves the command queue of an operational engine that is not
\* restricted to its job
CommandQueueTaken ==
    /\ ~only_from_job
    /\ IsOperational(S)
    /\ Len(command_queue') < Len(command_queue)

\* C28: a command accepted into the command queue leaves it only for the
\* send queue, one at a time and the oldest first: no accepted command is
\* thrown away.
C28_CommandQueueHandedOn ==
    [][CommandQueueTaken
       => /\ command_queue' = Tail(command_queue)
          /\ send_q' # << >>
          /\ send_q'[Len(send_q')].command = Head(command_queue).command]_vars


\* --------------------------------------------------------------------- C29

\* the places in all_flavors() of the flavors whose identifier accepts a name
Claiming(name) ==
    {i \in 1..Len(all_flavors) :
        all_flavors[i].identifier # {} /\ name \in all_flavors[i].identifier}

FirstOf(I) == CHOOSE i \in I : \A j \in I : i <= j
LastOf(I) == CHOOSE i \in I : \A j \in I : i >= j

\* the first message with a firmware name is handled
FirstNamedInfo(name, data) ==
    /\ ~firmware_identified
    /\ name # ""
    /\ RecvFirmwareInfo(name, data, MaxFirmwareEvents)

\* the firmware is marked as identified with its name and info stored
IdentifiedAs(name, data) ==
    /\ firmware_identified
    /\ firmware_name = name
    /\ firmware_info = data

\* C29: the first firmware-info message with a name installs the first
\* flavor of the enumeration whose identifier accepts it, keeps the current
\* flavor when none does, and marks the firmware identified with name and
\* info stored.
C29_FirstClaimingFlavorInstalled ==
    [][\A n \in FirmwareNames, d \in FirmwareData :
        FirstNamedInfo(n, d)
        => /\ flavor' = IF Claiming(n) = {} THEN flavor
                        ELSE all_flavors[FirstOf(Claiming(n))]
           /\ IdentifiedAs(n, d)']_vars

\* the same with the flavor enumerated last among those that accept
C29_LastClaimingFlavorInstalled ==
    [][\A n \in FirmwareNames, d \in FirmwareData :
        FirstNamedInfo(n, d)
        => /\ flavor' = IF Claiming(n) = {} THEN flavor
                        ELSE all_flavors[LastOf(Claiming(n))]
           /\ IdentifiedAs(n, d)']_vars


\* --------------------------------------------------------------------- C30

\* the runs in which the firmware reports its capabilities
NextCapability ==
    \/ Connect
    \/ \E cap \in Capabilities, enabled \in BOOLEAN :
          RecvCapability(cap, enabled, MaxCapabilityEvents)
    \/ RecvOk
    \/ RecvStart
    \/ SL_Wait
    \/ SL_Get(MaxInflight)
    \/ SL_Consume

SpecCapability == Init /\ [][NextCapability]_vars

\* the entry of the send queue for a command of the engine's own
OwnEntry(line) ==
    [command |-> to_command(line, "None"), linenumber |-> None, processed |-> FALSE]

\* the report is recorded, and the command is sent for the capabilities of
\* Sending that are reported as enabled and nothing for the others
Reported(cap, enabled, Sending) ==
    /\ cap \in DOMAIN firmware_capabilities'
    /\ firmware_capabilities'[cap] = enabled
    /\ send_q' =
         IF enabled /\ cap \in Sending
         THEN Append(send_q,
                     OwnEntry(IF cap = CAPABILITY_AUTOREPORT_TEMP
                              THEN command_autoreport_temperature
                              ELSE command_autoreport_sd_status))
         ELSE send_q

\* C30: a capability report is recorded; for AUTOREPORT_TEMP and
\* AUTOREPORT_SD_STATUS reported as enabled the engine sends the autoreport
\* command with the configured interval, for a disabled or any other
\* capability it sends nothing.
C30_AutoreportOnCapability ==
    [][\A cap \in Capabilities, enabled \in BOOLEAN :
        (state = "CONNECTED" /\ RecvCapability(cap, enabled, MaxCapabilityEvents))
        => Reported(cap, enabled,
                    {CAPABILITY_AUTOREPORT_TEMP, CAPABILITY_AUTOREPORT_SD_STATUS})]_vars

\* the same with the command sent for AUTOREPORT_TEMP alone
C30_AutoreportTemperatureOnly ==
    [][\A cap \in Capabilities, enabled \in BOOLEAN :
        (state = "CONNECTED" /\ RecvCapability(cap, enabled, MaxCapabilityEvents))
        => Reported(cap, enabled, {CAPABILITY_AUTOREPORT_TEMP})]_vars


\* --------------------------------------------------------------------- C31

\* what the user sends in the runs with tool changes
ToolInputs == {"T1", "M109 T1 S200", "M109 T2 S200"}

\* the runs in which the user selects tools and waits for their temperature
NextTool ==
    \/ Connect
    \/ \E line \in ToolInputs : UserSend(line, "None", MaxToolEvents)
    \/ RecvOk
    \/ RecvStart
    \/ SL_Wait
    \/ SL_Get(MaxInflight)
    \/ SL_Consume

SpecTool == Init /\ [][NextTool]_vars

\* a wait-for-temperature command has changed the current tool and stashed
\* the one before
Stashed == stashed

\* an ok that is not ignored is handled outside CONNECTING
NonIgnoredOk ==
    /\ ignore_ok = 0
    /\ state # "CONNECTING"
    /\ RecvOk

\* C31: the next ok that is not ignored restores the current tool from the
\* stash, whatever tool is stashed, and clears the stash; with nothing
\* stashed the ok leaves the current tool alone.
C31_OkRestoresTool ==
    [][NonIgnoredOk
       => IF Stashed
          THEN current_tool' = Val(former_tool) /\ former_tool' = None
          ELSE current_tool' = current_tool]_vars

\* the same for the stashed tools other than tool 0
C31_OkRestoresNonzeroTool ==
    [][NonIgnoredOk
       => IF Stashed /\ Val(former_tool) # 0
          THEN current_tool' = Val(former_tool) /\ former_tool' = None
          ELSE current_tool' = current_tool]_vars

\* tool 1 was stashed by M109 T2 and has been restored by the ok
C31_RestoredTool ==
    /\ current_tool = 1
    /\ IsNone(former_tool)
    /\ "tool2" \in DOMAIN temperatures


\* --------------------------------------------------------------------- C32

\* the runs with hooks that drop a command or return several
NextExpand ==
    \/ \E phase \in HookPhases, behaviour \in AllHookBehaviours :
          RegisterHook(phase, behaviour)
    \/ Connect
    \/ UserSend("G28", "None", MaxHookEvents)
    \/ RecvOk
    \/ RecvStart
    \/ SL_Wait
    \/ SL_Get(MaxInflight)
    \/ SL_Consume

SpecExpand == Init /\ [][NextExpand]_vars

\* the phases that may not expand a command, and the commands put through
\* them
SinglePhases == {"queued", "sending", "sent"}
PhaseInputs == {"G28", "M105", "M110 N0", "M109 S200", "@pause"}

\* a hook of the phase leaves nothing of a command
SomeHookDrops(phase) ==
    \E i \in 1..Len(gcode_hooks[phase]) : gcode_hooks[phase][i] \in {"raises", "drops"}

\* C32: in the phases queued, sending and sent one command yields at most
\* one command, so the send loop finds exactly one command or none after
\* the sending phase; a hook's result of several commands leaves the
\* command as it is, and an empty result drops it.
C32_OneCommandPerPhase ==
    \A phase \in SinglePhases, line \in PhaseInputs :
        LET command == to_command(line, "None")
            results == ProcessCommandPhase(S, phase, command).results
        IN /\ Len(results) <= 1
           /\ results = IF SomeHookDrops(phase) THEN << >> ELSE <<command>>

\* a command was written after it went through a hook of the sending phase
\* that returns several commands
C32_Witness ==
    /\ gcode_hooks["sending"] = <<"expands">>
    /\ pc = "sent"
    /\ cur.line = "G28"


\* --------------------------------------------------------------------- C33

\* the commands that set a target, and the reports of the firmware
TargetInputs == {"M104 S210", "M104 S0", "M140 S60", "M140 S0"}
Reports ==
    {[x \in {"T0", "B"} |-> [actual |-> Some(20), target |-> None]]}

\* the runs in which the user sets targets and the firmware reports
NextTarget ==
    \/ Connect
    \/ \E line \in TargetInputs : UserSend(line, "None", MaxTargetEvents)
    \/ \E report \in Reports : RecvTemperature(report, MaxTargetEvents)
    \/ RecvOk
    \/ RecvStart
    \/ SL_Wait
    \/ SL_Get(MaxInflight)
    \/ SL_Consume

SpecTarget == Init /\ [][NextTarget]_vars

\* the sending thread has written the line and run its sent handler
Sent(line) ==
    /\ SL_Get(MaxInflight)
    /\ pc' = "sent"
    /\ cur'.line = line

\* the heater a command without T parameter addresses
HeaterOf(line) == IF CodeOf(line) = "M104" THEN ToolName(current_tool) ELSE "bed"

\* the target of the heater is the S parameter of the line and its actual
\* temperature is what it was
TargetRecorded(line) ==
    /\ HeaterOf(line) \in DOMAIN temperatures'
    /\ temperatures'[HeaterOf(line)].target = Param(line, 83)
    /\ temperatures'[HeaterOf(line)].actual =
         IF HeaterOf(line) \in DOMAIN temperatures
         THEN temperatures[HeaterOf(line)].actual ELSE None

\* C33: after an M104 or M140 with an S parameter has been sent, the target
\* recorded for the tool or the bed is that parameter, also when it is 0,
\* and the actual temperature recorded is unchanged.
C33_TargetRecorded ==
    [][\A line \in TargetInputs : Sent(line) => TargetRecorded(line)]_vars

\* the same for the targets other than 0
C33_NonzeroTargetRecorded ==
    [][\A line \in TargetInputs :
        (Sent(line) /\ Param(line, 83) # Some(0)) => TargetRecorded(line)]_vars

\* a target of the bed is recorded next to the actual temperature reported
C33_TargetSet ==
    /\ "bed" \in DOMAIN temperatures
    /\ temperatures["bed"] = [actual |-> Some(20), target |-> Some(60)]


\* --------------------------------------------------------------------- C34

\* the sending thread has taken the line from the send queue, put it
\* through the sending phase and written it
SentFresh(line) ==
    /\ resend_q = << >>
    /\ Sent(line)

\* C34: a G-code of the flavor's long running commands that goes through
\* the sending phase sets long_running_command.
C34_LongRunningSet ==
    [][\A line \in Lines :
        (SentFresh(line) /\ CodeOf(line) \in flavor.long_running_commands)
        => long_running_command']_vars

\* the wait-for-temperature command sets long_running_command when sent
C34_HeatupSetsLongRunning ==
    [][SentFresh("M109 S200") => long_running_command']_vars


\* --------------------------------------------------------------------- C35

\* the runs in which the firmware asks for any line, in history or not, and
\* falls silent
NextStuck ==
    \/ Connect
    \/ Process
    \/ CancelDone
    \/ \E linenumber \in ResendNumbers : RecvResend(linenumber, MaxStuckEvents)
    \/ RecvTimeout(MaxStuckEvents)
    \/ RecvOk
    \/ RecvStart
    \/ SL_Wait
    \/ SL_Get(MaxInflight)
    \/ SL_Consume

SpecStuck == Init /\ [][NextStuck]_vars

\* a resend is outstanding and the send queue serves resend entries only,
\* there is none, and the history holds no line an ok or a timeout could
\* re-emit
Stuck ==
    /\ ~IsNone(resend_requested)
    /\ resend_active
    /\ resend_q = << >>
    /\ DOMAIN last_lines = {}

\* C35: every resend window closes again; the engine is never left in an
\* active resend with nothing it can re-emit.
C35_ResendWindowCloses == ~Stuck

\* an engine in an active resend with nothing to re-emit stays there, and
\* writes nothing
C35_StuckForever == [][Stuck => (Stuck' /\ wire' = wire)]_vars


\* --------------------------------------------------------------------- C36

\* the cursor of an outstanding resend stands at a line of the history
\* between the line requested and the line written last
CursorInWindow ==
    /\ ~IsNone(resend_linenumber)
    /\ Val(resend_requested) <= Val(resend_linenumber)
    /\ Val(resend_linenumber) <= current_linenumber - 1
    /\ Val(resend_linenumber) \in DOMAIN last_lines

\* C36: whenever a resend is outstanding, resend_requested <=
\* resend_linenumber <= current line - 1 and resend_linenumber is a key of
\* the history.
C36_CursorInWindow == ~IsNone(resend_requested) => CursorInWindow

\* the same as long as no timeout was handled in the window
C36_CursorInWindowWithoutTimeout ==
    (~IsNone(resend_requested) /\ ~rs_timeout) => CursorInWindow


\* --------------------------------------------------------------------- C37

\* the runs that count timeouts: the user sends a heat-up command, a job
\* is processed, and the firmware answers or falls silent
NextCounter ==
    \/ Connect
    \/ Process
    \/ (nevents = 0 /\ UserSend("M109 S200", "None", MaxCounterEvents))
    \/ RecvTimeout(MaxCounterEvents)
    \/ RecvOk
    \/ RecvStart
    \/ SL_Wait
    \/ SL_Get(MaxInflight)
    \/ SL_Consume

SpecCounter == Init /\ [][NextCounter]_vars

\* a read timeout is handled by an engine in one of the states
\* _on_comm_timeout acts in
HandledTimeout ==
    /\ state \in {"PROCESSING", "PAUSED", "CONNECTED"}
    /\ RecvTimeout(MaxCounterEvents)

\* the timeout takes none of the recovery actions
NoRecovery ==
    UNCHANGED <<state, heating, long_running_command, clear_to_send, send_q,
                resend_q, resend_linenumber, resend_requested>>

\* no step lowers the counter, and every timeout handled raises it by one
CounterCounts ==
    /\ timeout_consecutive' >= timeout_consecutive
    /\ HandledTimeout => timeout_consecutive' = timeout_consecutive + 1

SeveralInputs == {<<"M105">>, <<"G28", "M105">>, <<"M105", "G28">>}

\* the runs with calls for several commands: jobs that run in parallel
\* and jobs that do not, calls with and without force
NextSeveral ==
    \/ Connect
    \/ \E parallel \in BOOLEAN : ProcessJob("file", parallel)
    \/ JobDone
    \/ \E commands \in SeveralInputs, force \in BOOLEAN :
           UserSendAll(commands, "None", force, MaxSeveralEvents)
    \/ RecvOk
    \/ RecvStart
    \/ SL_Wait
    \/ SL_Get(MaxInflight)
    \/ SL_Consume

SpecSeveral == Init /\ [][NextSeveral]_vars

\* send_commands is called with these commands, without force, while a job
\* that does not run in parallel is processed
CalledWhileProcessing(commands) ==
    /\ state = "PROCESSING"
    /\ ~job.parallel
    /\ UserSendAll(commands, "None", FALSE, MaxSeveralEvents)

\* the lines of the entries the step has added to the command queue
LinesAdded ==
    [i \in 1..(Len(command_queue') - Len(command_queue)) |->
        command_queue'[Len(command_queue) + i].command.line]

\* C38: send_commands called with several commands while a job that does
\* not run in parallel is processed puts all of them into the command
\* queue, in call order, and returns true.
C38_AllCommandsQueued ==
    [][\A commands \in SeveralInputs :
         CalledWhileProcessing(commands)
            => /\ Len(command_queue') >= Len(command_queue)
               /\ LinesAdded = commands
               /\ ret' = "True"]_vars

\* what the code does: the first command is queued and the call returns
\* true, the commands after it are not in any queue
C38_FirstCommandQueued ==
    [][\A commands \in SeveralInputs :
         CalledWhileProcessing(commands)
            => /\ Len(command_queue') >= Len(command_queue)
               /\ LinesAdded = <<Head(commands)>>
               /\ send_q' = send_q
               /\ ret' = "True"]_vars


\* --------------------------------------------------------------------- C39

\* C39: only_from_job is true only while a stream job is processed; once
\* the job has ended and the state is CONNECTED again, and in a
\* disconnected engine, it is false.
C39_OnlyFromJobEndsWithJob ==
    only_from_job => (state \notin {"CONNECTED", "DISCONNECTED"})

\* what the code does: only the start of a job that is no stream job
\* clears only_from_job, and until then the poller's ticks of a connected
\* engine send nothing
C39_OnlyFromJobUntilNextJob ==
    [][/\ (only_from_job /\ ~only_from_job')
          => (state = "CONNECTED" /\ state' = "PROCESSING" /\ job'.kind # "stream")
       /\ (only_from_job /\ state = "CONNECTED" /\ PollerTicks)
          => (send_q' = send_q /\ wire' = wire)]_vars

\* a stream job has ended and the poller has ticked since
C39_PollerSilenced ==
    /\ only_from_job
    /\ state = "CONNECTED"
    /\ njobs = MaxJobs
    /\ nevents > 0

=============================================================================
